---- MODULE Spec2Model ----
(***************************************************************************)
(* Model of releaseo's surgical YAML value updater                         *)
(* (internal/files/yaml.go, UpdateYAMLFile and its helpers).               *)
(*                                                                         *)
(* Text (file content, values, keys, versions, error messages) is a        *)
(* sequence of one-character strings, so that substring search, regular    *)
(* expression matching and replacement-template expansion are computed     *)
(* character by character, as the Go code and its libraries compute them.  *)
(***************************************************************************)
EXTENDS Integers, Sequences, FiniteSets, TLC

VARIABLES
    file,   \* content of the YAML file cfg.File on disk
    pc,     \* "ready" before the call of UpdateYAMLFile, "done" after it
    call,   \* the call made: its arguments, the file before it, its outcome
    probe   \* the arguments given to a pure function of the program (such as
            \* findEmbeddedVersion), and its result

vars == <<file, pc, call, probe>>

----------------------------------------------------------------------------
(* Characters and elementary string functions (Go package strings).        *)

Digits == {"0", "1", "2", "3", "4", "5", "6", "7", "8", "9"}

Letters ==
    {"a", "b", "c", "d", "e", "f", "g", "h", "i", "j", "k", "l", "m",
     "n", "o", "p", "q", "r", "s", "t", "u", "v", "w", "x", "y", "z",
     "A", "B", "C", "D", "E", "F", "G", "H", "I", "J", "K", "L", "M",
     "N", "O", "P", "Q", "R", "S", "T", "U", "V", "W", "X", "Y", "Z"}

\* The regexp class \s of Go (RE2): [\t\n\f\r ].
Space == {" ", "\t", "\n", "\f", "\r"}

\* The class [a-zA-Z0-9.] of the prerelease part of a version.
PreChars == Letters \cup Digits \cup {"."}

\* The characters of a group name in a replacement template.
NameChars == Letters \cup Digits \cup {"_"}

\* A local variable: F applied to the value v bound to it.
With(v, F(_)) == F(v)

\* The characters of a string, one by one.
Chars(str) == [i \in 1..Len(str) |-> SubSeq(str, i, i)]

\* s[i], or "" when i is outside s.
CharAt(s, i) == IF i \in 1..Len(s) THEN s[i] ELSE ""

\* lit occurs in s at position i.
LitAt(s, i, lit) ==
    /\ i >= 1
    /\ i + Len(lit) - 1 <= Len(s)
    /\ \A j \in 1..Len(lit) : s[i + j - 1] = lit[j]

\* The length of the longest run of characters of class C that starts at s[p].
Run(s, p, C) ==
    IF p > Len(s) THEN 0
    ELSE CHOOSE n \in 0..(Len(s) - p + 1) :
             /\ \A j \in 0..(n - 1) : s[p + j] \in C
             /\ CharAt(s, p + n) \notin C

Smallest(S) == CHOOSE x \in S : \A y \in S : x <= y

\* strings.Index, 1-based: the first position >= from where lit occurs, 0 if none.
IndexFrom(s, lit, from) ==
    With({i \in from..(Len(s) - Len(lit) + 1) : LitAt(s, i, lit)}, LAMBDA I :
        IF I = {} THEN 0 ELSE Smallest(I))

Index(s, lit) == IndexFrom(s, lit, 1)

\* strings.Contains
Contains(s, lit) == Index(s, lit) # 0

\* strings.HasPrefix
HasPrefix(s, lit) == LitAt(s, 1, lit)

\* strings.TrimPrefix
TrimPrefix(s, lit) ==
    IF HasPrefix(s, lit) THEN SubSeq(s, Len(lit) + 1, Len(s)) ELSE s

\* strings.Replace(s, old, new, 1): the first occurrence of old replaced.
ReplaceFirst(s, old, new) ==
    With(Index(s, old), LAMBDA i :
        IF i = 0 THEN s
        ELSE SubSeq(s, 1, i - 1) \o new \o SubSeq(s, i + Len(old), Len(s)))

\* strings.Split(s, sep) for a one-character separator.
RECURSIVE Split(_, _)
Split(s, sep) ==
    With(Index(s, <<sep>>), LAMBDA i :
        IF i = 0 THEN <<s>>
        ELSE <<SubSeq(s, 1, i - 1)>> \o Split(SubSeq(s, i + 1, Len(s)), sep))

\* fmt's %q for the characters of the model: the string in double quotes,
\* with double quotes and backslashes escaped.
RECURSIVE Escape(_)
Escape(s) ==
    IF s = <<>> THEN <<>>
    ELSE (IF Head(s) \in {"\"", "\\"} THEN <<"\\", Head(s)>> ELSE <<Head(s)>>)
         \o Escape(Tail(s))

Quote(s) == <<"\"">> \o Escape(s) \o <<"\"">>

Largest(S) == CHOOSE x \in S : \A y \in S : x >= y

----------------------------------------------------------------------------
(* findEmbeddedVersion: the embedded-version detector.                     *)

\* The end (exclusive) of the match of  \d+\.\d+\.\d+  that starts at s[p],
\* or 0 when the expression does not match there.
SemverCoreEnd(s, p) ==
    With(Run(s, p, Digits), LAMBDA d1 :
    With(Run(s, p + d1 + 1, Digits), LAMBDA d2 :
    With(Run(s, p + d1 + d2 + 2, Digits), LAMBDA d3 :
        IF /\ d1 > 0 /\ CharAt(s, p + d1) = "."
           /\ d2 > 0 /\ CharAt(s, p + d1 + 1 + d2) = "."
           /\ d3 > 0
        THEN p + d1 + d2 + d3 + 2
        ELSE 0)))

\* The end (exclusive) of the greedy match of
\*   \d+\.\d+\.\d+(?:-[a-zA-Z0-9.]+)?
\* that starts at s[p], or 0 when the expression does not match there.
SemverEnd(s, p) ==
    With(SemverCoreEnd(s, p), LAMBDA q :
    With(Run(s, q + 1, PreChars), LAMBDA pre :
        IF q # 0 /\ CharAt(s, q) = "-" /\ pre > 0 THEN q + 1 + pre ELSE q))

\* The leftmost match of  ":" + prefix + semver  (image-tag style), as the
\* pair <<start, end>> of the whole match, or <<0, 0>>.
ColonPatternMatch(value, prefix) ==
    With(<<":">> \o prefix, LAMBDA lit :
    With({i \in 1..Len(value) :
             LitAt(value, i, lit) /\ SemverEnd(value, i + Len(lit)) # 0},
         LAMBDA I :
        IF I = {} THEN <<0, 0>>
        ELSE <<Smallest(I), SemverEnd(value, Smallest(I) + Len(lit))>>))

\* The leftmost match of  prefix + semver + "$"  (version at end of string).
EndPatternMatch(value, prefix) ==
    With({i \in 1..Len(value) :
             LitAt(value, i, prefix)
             /\ SemverEnd(value, i + Len(prefix)) = Len(value) + 1},
         LAMBDA I :
        IF I = {} THEN <<0, 0>> ELSE <<Smallest(I), Len(value) + 1>>)

\* A result that keeps the whole match, the leading ":" included.
MatchedVersion_KeepColon(value, m) == SubSeq(value, m[1], m[2] - 1)

\* What findEmbeddedVersion returns for a match of one of its patterns:
\* the whole match, without a leading ":".
MatchedVersion(value, m) ==
    With(SubSeq(value, m[1], m[2] - 1), LAMBDA whole :
        IF HasPrefix(whole, <<":">>) THEN Tail(whole) ELSE whole)

\* A detector that tries the end-of-string pattern first.
findEmbeddedVersion_EndFirst(value, prefix) ==
    With(ColonPatternMatch(value, prefix), LAMBDA c :
    With(EndPatternMatch(value, prefix), LAMBDA e :
        IF e[1] # 0 THEN MatchedVersion(value, e)
        ELSE IF c[1] # 0 THEN MatchedVersion(value, c)
        ELSE <<>>))

\* The patterns are tried in the order of the source: image-tag style first,
\* end of string second; the first pattern that matches decides.
findEmbeddedVersion(value, prefix) ==
    With(ColonPatternMatch(value, prefix), LAMBDA c :
    With(EndPatternMatch(value, prefix), LAMBDA e :
        IF c[1] # 0 THEN MatchedVersion(value, c)
        ELSE IF e[1] # 0 THEN MatchedVersion(value, e)
        ELSE <<>>))

----------------------------------------------------------------------------
(* replacementRules and surgicalReplace: the format-preserving rewriter.   *)

\* Each rule is the pattern  (key:\s*) open (old) close , compiled with (?m).
\* open is the text between group 1 and the old value; close says what must
\* follow the old value: a quote, `(\s*)$`, `(\s*#)`, or nothing (fallback).
replacementRules ==
    << [name |-> "double-quoted",         open |-> <<"\"">>, close |-> "dq"],
       [name |-> "single-quoted",         open |-> <<"'">>,  close |-> "sq"],
       [name |-> "unquoted-eol",          open |-> <<>>,     close |-> "eol"],
       [name |-> "unquoted-with-comment", open |-> <<>>,     close |-> "comment"] >>

\* The fallback pattern of surgicalReplace:  (key:\s*)old
fallbackRule == [name |-> "fallback", open |-> <<>>, close |-> "none"]

\* (?m)$ : at the end of the text or before a newline.
AtEol(s, p) == p = Len(s) + 1 \/ CharAt(s, p) = "\n"

\* The end (exclusive) of the match of a rule's closing part at s[q], 0 if none.
\* \s* is greedy: the longest run of white space that lets the rest match.
CloseEnd(s, q, close) ==
    With(Run(s, q, Space), LAMBDA r :
    With({j \in 0..r : AtEol(s, q + j)}, LAMBDA J :
        CASE close = "dq"      -> IF CharAt(s, q) = "\"" THEN q + 1 ELSE 0
          [] close = "sq"      -> IF CharAt(s, q) = "'" THEN q + 1 ELSE 0
          [] close = "eol"     -> IF J = {} THEN 0 ELSE q + Largest(J)
          [] close = "comment" -> IF CharAt(s, q + r) = "#" THEN q + r + 1 ELSE 0
          [] OTHER             -> q))

\* The end of the match of  open old close  at s[p], 0 if none.
RestEnd(s, p, rule, old) ==
    IF LitAt(s, p, rule.open \o old)
    THEN CloseEnd(s, p + Len(rule.open) + Len(old), rule.close)
    ELSE 0

NoMatch == [ok |-> FALSE, end |-> 0, groups |-> <<>>]

\* The groups <<whole match, group 1, group 2, group 3>> of a match s[i..e-1]
\* whose old value starts at s[p + Len(rule.open)] and ends before s[q] (the
\* fallback pattern has group 1 only, the quoted rules have groups 1 and 2).
Groups(s, i, p, q, e, rule, old) ==
    CASE rule.close \in {"eol", "comment"} ->
             <<SubSeq(s, i, e - 1), SubSeq(s, i, p - 1), old, SubSeq(s, q, e - 1)>>
      [] rule.close \in {"dq", "sq"} ->
             <<SubSeq(s, i, e - 1), SubSeq(s, i, p - 1), old>>
      [] OTHER ->
             <<SubSeq(s, i, e - 1), SubSeq(s, i, p - 1)>>

\* The match of a rule's pattern that starts exactly at s[i]: its end and its
\* groups.
MatchAt(s, i, rule, key, old) ==
    With(i + Len(key) + 1, LAMBDA p0 :
    With({k \in 0..Run(s, p0, Space) : RestEnd(s, p0 + k, rule, old) # 0},
         LAMBDA K :
        IF ~LitAt(s, i, key \o <<":">>) \/ K = {} THEN NoMatch
        ELSE With(p0 + Largest(K), LAMBDA p :
             With(RestEnd(s, p, rule, old), LAMBDA e :
                 [ok |-> TRUE, end |-> e,
                  groups |-> Groups(s, i, p, p + Len(rule.open) + Len(old), e,
                                    rule, old)]))))

\* regexp.MatchString
MatchString(s, rule, key, old) ==
    \E i \in 1..Len(s) : MatchAt(s, i, rule, key, old).ok

\* Templates that write every quoted value in double quotes.
Template_DoubleQuotes(rule, newValue) ==
    LET g1 == <<"$", "{", "1", "}">>
        g3 == <<"$", "{", "3", "}">>
    IN  CASE rule.close \in {"dq", "sq"} -> g1 \o <<"\"">> \o newValue \o <<"\"">>
          [] rule.close \in {"eol", "comment"} -> g1 \o newValue \o g3
          [] OTHER -> g1 \o newValue

\* The replacement template a rule builds with fmt.Sprintf: the new value is
\* pasted into the template text.
Template(rule, newValue) ==
    LET g1 == <<"$", "{", "1", "}">>
        g3 == <<"$", "{", "3", "}">>
    IN  CASE rule.close = "dq" -> g1 \o <<"\"">> \o newValue \o <<"\"">>
          [] rule.close = "sq" -> g1 \o <<"'">> \o newValue \o <<"'">>
          [] rule.close \in {"eol", "comment"} -> g1 \o newValue \o g3
          [] OTHER -> g1 \o newValue

DigitValue(c) ==
    CASE c = "0" -> 0 [] c = "1" -> 1 [] c = "2" -> 2 [] c = "3" -> 3
      [] c = "4" -> 4 [] c = "5" -> 5 [] c = "6" -> 6 [] c = "7" -> 7
      [] c = "8" -> 8 [] c = "9" -> 9

\* The text a template reference $name or ${name} stands for: the numbered
\* group when name is a number of an existing group, otherwise nothing (the
\* patterns have no named groups).
GroupText(name, groups) ==
    IF Len(name) = 1 /\ name[1] \in Digits /\ DigitValue(name[1]) + 1 <= Len(groups)
    THEN groups[DigitValue(name[1]) + 1]
    ELSE <<>>

\* regexp.Expand: $$ is a dollar sign; $name and ${name} are replaced by the
\* group's text; a malformed reference leaves the dollar sign as text.
RECURSIVE Expand(_, _)
Expand(t, groups) ==
    IF t = <<>> THEN <<>>
    ELSE IF Head(t) # "$" THEN <<Head(t)>> \o Expand(Tail(t), groups)
    ELSE IF CharAt(t, 2) = "$" THEN <<"$">> \o Expand(SubSeq(t, 3, Len(t)), groups)
    ELSE With(CharAt(t, 2) = "{", LAMBDA brace :
         With(IF brace THEN SubSeq(t, 3, Len(t)) ELSE Tail(t), LAMBDA b :
         With(Run(b, 1, NameChars), LAMBDA n :
             IF ~(n > 0 /\ (brace => CharAt(b, n + 1) = "}"))
             THEN <<"$">> \o Expand(Tail(t), groups)
             ELSE GroupText(SubSeq(b, 1, n), groups)
                  \o Expand(SubSeq(b, n + 1 + (IF brace THEN 1 ELSE 0), Len(b)),
                            groups))))

\* regexp.ReplaceAllString: every non-overlapping match, from left to right,
\* is replaced by the expanded template.
RECURSIVE ReplaceAllFrom(_, _, _, _, _, _)
ReplaceAllFrom(s, i, rule, key, old, tmpl) ==
    IF i > Len(s) THEN <<>>
    ELSE With(MatchAt(s, i, rule, key, old), LAMBDA m :
             IF m.ok
             THEN Expand(tmpl, m.groups)
                  \o ReplaceAllFrom(s, m.end, rule, key, old, tmpl)
             ELSE <<s[i]>> \o ReplaceAllFrom(s, i + 1, rule, key, old, tmpl))

ReplaceAllString(s, rule, key, old, newValue) ==
    ReplaceAllFrom(s, 1, rule, key, old, Template(rule, newValue))

\* The rule that matches last, not first.
AppliedRule_LastMatch(content, key, old) ==
    With({n \in 1..Len(replacementRules) :
             MatchString(content, replacementRules[n], key, old)},
         LAMBDA M :
        IF M # {} THEN Largest(M)
        ELSE IF MatchString(content, fallbackRule, key, old)
             THEN Len(replacementRules) + 1
        ELSE 0)

\* The rule surgicalReplace applies: the first of replacementRules that
\* matches, else the fallback if it matches, else none (0 = none,
\* 5 = fallback).
AppliedRule(content, key, old) ==
    With({n \in 1..Len(replacementRules) :
             MatchString(content, replacementRules[n], key, old)},
         LAMBDA M :
        IF M # {} THEN Smallest(M)
        ELSE IF MatchString(content, fallbackRule, key, old)
             THEN Len(replacementRules) + 1
        ELSE 0)

surgicalReplace(data, key, oldValue, newValue) ==
    With(AppliedRule(data, key, oldValue), LAMBDA n :
        IF n = 0 THEN [err |-> TRUE, data |-> <<>>, rule |-> 0]
        ELSE [err |-> FALSE, rule |-> n,
              data |-> ReplaceAllString(data,
                                        IF n \in 1..Len(replacementRules)
                                        THEN replacementRules[n] ELSE fallbackRule,
                                        key, oldValue, newValue)])

\* extractKeyFromPath: the path without its numeric indices [N], then the
\* part after the last dot.
RECURSIVE RemoveIndices(_)
RemoveIndices(path) ==
    IF path = <<>> THEN <<>>
    ELSE With(Run(path, 2, Digits), LAMBDA d :
             IF Head(path) = "[" /\ d > 0 /\ CharAt(path, 2 + d) = "]"
             THEN RemoveIndices(SubSeq(path, 3 + d, Len(path)))
             ELSE <<Head(path)>> \o RemoveIndices(Tail(path)))

extractKeyFromPath(path) ==
    With(Split(RemoveIndices(path), "."), LAMBDA parts : parts[Len(parts)])

----------------------------------------------------------------------------
(* Reading the value at a path (yaml.PathString and Path.Read of the YAML  *)
(* library), for the documents of the model: block mappings, one           *)
(* `key: value` entry per line, nested by indentation, with plain,         *)
(* double-quoted and single-quoted scalars, comments and blank lines.      *)

\* The entry on line l, indented by ind, with its colon at l[c] and its value
\* starting at l[v]: the value is has/val, written in style.
Entry(l, ind, c, v, has, val, style) ==
    [kind |-> "entry", indent |-> ind,
     key |-> SubSeq(l, ind + 1,
                    Largest({k \in ind..(c - 1) : k = ind \/ l[k] # " "})),
     pad |-> v - c - 1, hasValue |-> has, value |-> val, style |-> style]

\* The scalar of an entry: quoted up to the closing quote, else plain up to
\* an inline comment or the end of the line, without trailing blanks.
ParseEntry(l, ind, c, v) ==
    With(CharAt(l, v), LAMBDA q :
    With(IndexFrom(l, <<q>>, v + 1), LAMBDA close :
    With(IndexFrom(l, <<" ", "#">>, v), LAMBDA cmt :
        IF v > Len(l) \/ q = "#" THEN Entry(l, ind, c, v, FALSE, <<>>, "")
        ELSE IF q \in {"\"", "'"} /\ close # 0
             THEN Entry(l, ind, c, v, TRUE, SubSeq(l, v + 1, close - 1), q)
        ELSE Entry(l, ind, c, v, TRUE,
                   SubSeq(l, v, Largest({e \in v..(IF cmt = 0 THEN Len(l)
                                                    ELSE cmt - 1) : l[e] # " "})),
                   ""))))

\* One line of the document: a blank line, a comment, or an entry with its
\* indentation, its key (blanks before the colon are not part of it), the
\* number of blanks after the colon, and its scalar with its quoting style.
ParseLine(l) ==
    With(Run(l, 1, {" "}), LAMBDA ind :
    With({c \in (ind + 1)..Len(l) :
             l[c] = ":" /\ (c = Len(l) \/ l[c + 1] = " ")},
         LAMBDA C :
        IF ind = Len(l) THEN [kind |-> "blank"]
        ELSE IF l[ind + 1] = "#" \/ C = {} THEN [kind |-> "comment"]
        ELSE With(Smallest(C), LAMBDA c :
                 ParseEntry(l, ind, c, c + 1 + Run(l, c + 1, {" "})))))

Entries(data) ==
    With(Split(data, "\n"), LAMBDA lines :
        [i \in 1..Len(lines) |-> ParseLine(lines[i])])

\* The last line of the block nested under line j.
BlockEnd(E, j, to) ==
    Largest({m \in j..to :
                \A n \in (j + 1)..m :
                    E[n].kind = "entry" => E[n].indent > E[j].indent})

\* The line of the scalar that the keys segs lead to, among the entries of
\* indentation ind in lines from..to; 0 when a key is absent or the node
\* found is not a scalar.
RECURSIVE Locate(_, _, _, _, _)
Locate(E, segs, from, to, ind) ==
    With({j \in from..to :
             E[j].kind = "entry" /\ E[j].indent = ind /\ E[j].key = segs[1]},
         LAMBDA J :
        IF J = {} THEN 0
        ELSE With(Smallest(J), LAMBDA j :
             With(BlockEnd(E, j, to), LAMBDA be :
             With({m \in (j + 1)..be : E[m].kind = "entry"}, LAMBDA kids :
                 IF Len(segs) = 1 THEN (IF E[j].hasValue THEN j ELSE 0)
                 ELSE IF E[j].hasValue \/ kids = {} THEN 0
                 ELSE Locate(E, Tail(segs), j + 1, be,
                             E[Smallest(kids)].indent)))))

\* The line holding the value at yamlPath ($.key.key...), 0 if there is none.
PathRead(data, yamlPath) ==
    With(Split(yamlPath, "."), LAMBDA parts :
    With(Entries(data), LAMBDA E :
    With({m \in 1..Len(E) : E[m].kind = "entry"}, LAMBDA top :
        IF Len(parts) < 2 \/ parts[1] # <<"$">> \/ top = {}
           \/ \E n \in 2..Len(parts) : parts[n] = <<>>
        THEN 0
        ELSE Locate(E, Tail(parts), 1, Len(E), E[Smallest(top)].indent))))

----------------------------------------------------------------------------
(* convertToYAMLPath and UpdateYAMLFile.                                   *)

convertToYAMLPath(path) ==
    IF path = <<>>
    THEN [err |-> TRUE, path |-> <<>>, text |-> Chars("path cannot be empty")]
    ELSE IF HasPrefix(path, <<".">>)
    THEN [err |-> TRUE, path |-> <<>>,
          text |-> Chars("path cannot start with '.' (got ") \o Quote(path)
                   \o Chars(") - use ") \o Quote(TrimPrefix(path, <<".">>))
                   \o Chars(" instead")]
    ELSE IF HasPrefix(path, <<"$">>)
    THEN [err |-> FALSE, path |-> path, text |-> <<>>]
    ELSE [err |-> FALSE, path |-> <<"$", ".">> \o path, text |-> <<>>]

\* The three-way decision of UpdateYAMLFile on the value found at the path:
\* replace the embedded version, report a version mismatch, or replace the
\* whole value.
DecideReplacement(valueAtPath, prefix, currentVersion, newVersion) ==
    With(prefix \o currentVersion, LAMBDA oldVersionStr :
    With(prefix \o newVersion, LAMBDA newVersionStr :
    With(findEmbeddedVersion(valueAtPath, prefix), LAMBDA embeddedVersion :
        IF Contains(valueAtPath, oldVersionStr)
        THEN [branch |-> "embedded", oldValue |-> valueAtPath, found |-> <<>>,
              newValue |-> ReplaceFirst(valueAtPath, oldVersionStr, newVersionStr)]
        ELSE IF embeddedVersion # <<>>
        THEN [branch |-> "mismatch", oldValue |-> <<>>, newValue |-> <<>>,
              found |-> embeddedVersion]
        ELSE [branch |-> "whole", oldValue |-> valueAtPath, found |-> <<>>,
              newValue |-> newVersionStr])))

\* The text of the version-mismatch error.
MismatchText(cfg, oldVersionStr, embeddedVersion, valueAtPath) ==
    Chars("version mismatch in ") \o cfg.file \o Chars(" at path ") \o cfg.path
    \o Chars(": expected to find ") \o Quote(oldVersionStr)
    \o Chars(" but found ") \o Quote(embeddedVersion)
    \o Chars(" in value ") \o Quote(valueAtPath)
    \o Chars(". This usually means the file was not updated in a previous release. ")
    \o Chars("Please manually update the version in this file to ")
    \o Quote(oldVersionStr) \o Chars(" before running releaseo")

\* An outcome of UpdateYAMLFile that returns an error: nothing is written.
Failure(kind, text, data) ==
    [err |-> kind, text |-> text, data |-> data, wrote |-> FALSE,
     line |-> 0, branch |-> "", oldValue |-> <<>>, newValue |-> <<>>, rule |-> 0]

\* An end of UpdateYAMLFile that writes what surgicalReplace returned before
\* it looks at the error.
ReplaceAndWrite_WriteBeforeCheck(data, cfg, line, d) ==
    With(extractKeyFromPath(cfg.path), LAMBDA key :
    With(surgicalReplace(data, key, d.oldValue, d.newValue), LAMBDA rep :
        [err |-> IF rep.err THEN "no match" ELSE "", text |-> <<>>,
         data |-> rep.data, wrote |-> TRUE, line |-> line, branch |-> d.branch,
         oldValue |-> d.oldValue, newValue |-> d.newValue, rule |-> rep.rule]))

\* The end of UpdateYAMLFile: the surgical replacement, then the write of
\* its result.
ReplaceAndWrite(data, cfg, line, d) ==
    With(extractKeyFromPath(cfg.path), LAMBDA key :
    With(surgicalReplace(data, key, d.oldValue, d.newValue), LAMBDA rep :
        IF rep.err
        THEN Failure("no match",
                     Chars("replacing value at path ") \o cfg.path
                     \o Chars(": could not find value ") \o Quote(d.oldValue)
                     \o Chars(" for key ") \o Quote(key) \o Chars(" to replace"),
                     data)
        ELSE [err |-> "", text |-> <<>>, data |-> rep.data, wrote |-> TRUE,
              line |-> line, branch |-> d.branch, oldValue |-> d.oldValue,
              newValue |-> d.newValue, rule |-> rep.rule]))

\* UpdateYAMLFile on a file holding data: the error returned ("" for nil)
\* with its text, and the content of the file after the call.
UpdateYAMLFile(data, cfg, currentVersion, newVersion) ==
    With(convertToYAMLPath(cfg.path), LAMBDA conv :
        IF conv.err
        THEN Failure("invalid path",
                     Chars("invalid path ") \o cfg.path \o Chars(": ") \o conv.text,
                     data)
        ELSE With(PathRead(data, conv.path), LAMBDA line :
            IF line = 0
            THEN Failure("path not found",
                         Chars("path ") \o cfg.path \o Chars(" not found in ")
                         \o cfg.file \o Chars(": node not found"),
                         data)
            ELSE With(Entries(data)[line].value, LAMBDA valueAtPath :
                 With(DecideReplacement(valueAtPath, cfg.prefix, currentVersion,
                                        newVersion),
                      LAMBDA d :
                     IF d.branch = "mismatch"
                     THEN Failure("version mismatch",
                                  MismatchText(cfg, cfg.prefix \o currentVersion,
                                               d.found, valueAtPath),
                                  data)
                     ELSE ReplaceAndWrite(data, cfg, line, d)))))

----------------------------------------------------------------------------
(* The inputs of the model: YAML files and call arguments.                 *)

\* The longest run of blanks between `key:` and the value in the files.
MaxPad == 2

Blanks(n) == [i \in 1..n |-> " "]

Pads == {Blanks(n) : n \in 1..MaxPad}

Quotes == {"", "\"", "'"}

\* What may follow the value on its line: nothing, a blank, a comment.
Trails == {<<>>, Chars(" "), Chars(" # c")}

\* Values held by the keys: bare versions with and without prefix, image
\* references with a version tag, a value without a version, a value with a
\* shell-style variable reference.
Values ==
    {Chars("1.0.0"), Chars("v1.0.0"), Chars("11.0.0"), Chars("lts"),
     Chars("r:v1.0.0"), Chars("r:1.0.0-a"), Chars("r:2.0.0-1.0.0"),
     Chars("$r:v1.0.0")}

Versions == {Chars("1.0.0"), Chars("2.0.0")}

Prefixes == {<<>>, Chars("v")}

Paths ==
    {Chars("tag"), Chars("ptag"), Chars("app"), Chars("img.tag"),
     Chars("car.tag"), Chars(".tag"), <<>>}

FileName == Chars("values.yaml")

\* The line  `key:` pad quote value quote trail  at an indentation.
EntryLine(indent, key, pad, q, value, trail) ==
    Blanks(indent) \o key \o <<":">> \o pad
    \o (IF q = "" THEN <<>> ELSE <<q>>) \o value
    \o (IF q = "" THEN <<>> ELSE <<q>>) \o trail \o <<"\n">>

\* A file with the single key tag.
SingleKeyFiles ==
    {EntryLine(0, Chars("tag"), pad, q, v, trail) :
        pad \in Pads, q \in Quotes, v \in Values, trail \in Trails}

\* A file with the key tag and, before it, another key holding the same
\* value (ptag ends with the text of tag, app does not) or a comment that
\* quotes the entry.
TwoKeyFiles ==
    UNION {
        {first \o EntryLine(0, Chars("tag"), Chars(" "), q, v, <<>>) :
            first \in {EntryLine(0, k, Chars(" "), q2, v, <<>>) :
                           k \in {Chars("ptag"), Chars("app")}, q2 \in Quotes}
                      \cup {Chars("# ") \o EntryLine(0, Chars("tag"), Chars(" "), q2, v, <<>>) :
                               q2 \in Quotes},
            q \in Quotes} :
        v \in Values}

\* A file with the same leaf key under two parents, as img.tag and car.tag.
NestedFiles ==
    {Chars("img:\n") \o EntryLine(2, Chars("tag"), Chars(" "), q, v, <<>>)
     \o Chars("car:\n") \o EntryLine(2, Chars("tag"), Chars(" "), q2, v2, <<>>) :
        q \in Quotes, q2 \in Quotes, v \in {Chars("v1.0.0"), Chars("1.0.0")},
        v2 \in {Chars("v1.0.0"), Chars("1.0.0")}}

\* A file whose key is followed by a blank before the colon.
SpacedKeyFiles ==
    {EntryLine(0, Chars("tag "), Chars(" "), q, v, <<>>) :
        q \in Quotes, v \in {Chars("v1.0.0"), Chars("1.0.0")}}

Files == SingleKeyFiles \cup TwoKeyFiles \cup NestedFiles \cup SpacedKeyFiles

----------------------------------------------------------------------------
(* The state machine: one call of UpdateYAMLFile on a file.                *)

NoCall ==
    [cfg |-> [file |-> <<>>, path |-> <<>>, prefix |-> <<>>],
     currentVersion |-> <<>>, newVersion |-> <<>>, before |-> <<>>,
     result |-> Failure("", <<>>, <<>>)]

NoProbe == [applied |-> FALSE, value |-> <<>>, prefix |-> <<>>, result |-> <<>>]

Init ==
    /\ file \in Files
    /\ pc = "ready"
    /\ call = NoCall
    /\ probe = NoProbe

Update ==
    /\ pc = "ready"
    /\ \E path \in Paths, prefix \in Prefixes,
          currentVersion \in Versions, newVersion \in Versions :
          With([file |-> FileName, path |-> path, prefix |-> prefix], LAMBDA cfg :
          With(UpdateYAMLFile(file, cfg, currentVersion, newVersion),
               LAMBDA result :
              /\ file' = result.data
              /\ call' = [cfg |-> cfg, currentVersion |-> currentVersion,
                          newVersion |-> newVersion, before |-> file,
                          result |-> result]))
    /\ pc' = "done"
    /\ UNCHANGED probe

Next == Update

Spec == Init /\ [][Next]_vars

----------------------------------------------------------------------------
(* findEmbeddedVersion as a pure function: it is applied to a value and a  *)
(* prefix drawn from bounded sets.                                         *)

\* Values built as  head + version + tail : versions alone, after a colon,
\* inside a path, followed by a second version.
ProbeHeads ==
    {<<>>, Chars("r:"), Chars("r/"), Chars("r:1.0.0/"), Chars("r:v1.0.0/"),
     Chars("r:v1.0.0-")}

ProbeVersions ==
    {Chars("2.0.0"), Chars("v2.0.0"), Chars("2.0.0-rc.1"), Chars("v2"), Chars("20.1.3")}

ProbeTails == {<<>>, Chars("/api"), Chars(":x"), Chars("_")}

ProbeValues ==
    {h \o v \o t : h \in ProbeHeads, v \in ProbeVersions, t \in ProbeTails}
    \cup {Chars("some-random-string"), Chars("https://example.com/v1/api")}

DetectInit ==
    /\ file = <<>>
    /\ pc = "ready"
    /\ call = NoCall
    /\ probe \in {[applied |-> FALSE, value |-> v, prefix |-> p, result |-> <<>>] :
                      v \in ProbeValues, p \in Prefixes}

Detect ==
    /\ ~probe.applied
    /\ probe' = [probe EXCEPT !.applied = TRUE,
                              !.result = findEmbeddedVersion(probe.value, probe.prefix)]
    /\ UNCHANGED <<file, pc, call>>

DetectNext == Detect

DetectSpec == DetectInit /\ [][DetectNext]_vars

----------------------------------------------------------------------------
(* What the claims speak about, read from the state after the call.        *)

Done == pc = "done"

Succeeded == Done /\ call.result.err = ""

OldVersionStr == call.cfg.prefix \o call.currentVersion

NewVersionStr == call.cfg.prefix \o call.newVersion

BeforeLines == Split(call.before, "\n")

AfterLines == Split(file, "\n")

\* The line of the file before the call that cfg.Path addresses (0: none).
Addressed == PathRead(call.before, Chars("$.") \o call.cfg.path)

AddressedEntry == ParseLine(BeforeLines[Addressed])

ValueBefore == AddressedEntry.value

\* The value read at cfg.Path from the file after the call.
AddressedAfter == PathRead(file, Chars("$.") \o call.cfg.path)

ValueAfter == Entries(file)[AddressedAfter].value

\* w is v with the first occurrence of old replaced by new, every other
\* character kept.
FirstOccurrenceReplaced(v, old, new, w) ==
    \E i \in 1..Len(v) :
        /\ LitAt(v, i, old)
        /\ \A j \in 1..(i - 1) : ~LitAt(v, j, old)
        /\ w = SubSeq(v, 1, i - 1) \o new \o SubSeq(v, i + Len(old), Len(v))

\* Line m of the file is the same before and after the call.
LineUnchanged(m) == m <= Len(AfterLines) /\ AfterLines[m] = BeforeLines[m]

\* The comment on a line: the line itself when it is a comment line, the
\* text from " #" on when the line ends with an inline comment.
CommentOf(l) ==
    LET c == Index(l, <<" ", "#">>)
    IN  IF ParseLine(l).kind = "comment" THEN l
        ELSE IF c # 0 THEN SubSeq(l, c, Len(l))
        ELSE <<>>

----------------------------------------------------------------------------
(* Claims.                                                                 *)

\* C1: when the value at cfg.Path contains prefix+currentVersion and
\* UpdateYAMLFile succeeds (here: for a new version that differs from the
\* current one), the value at cfg.Path afterwards is the old value with the
\* first occurrence of prefix+currentVersion replaced by prefix+newVersion
\* and every other character preserved.
C1_EmbeddedVersionReplaced ==
    (/\ Succeeded /\ Addressed # 0
     /\ call.newVersion # call.currentVersion
     /\ Contains(ValueBefore, OldVersionStr))
        => /\ AddressedAfter # 0
           /\ FirstOccurrenceReplaced(ValueBefore, OldVersionStr, NewVersionStr,
                                      ValueAfter)

\* The version the detector finds in the value at cfg.Path with the
\* configured prefix, and that version without its -prerelease part.
FoundVersion == findEmbeddedVersion(ValueBefore, call.cfg.prefix)

FoundCore ==
    SubSeq(FoundVersion, 1, SemverCoreEnd(FoundVersion, Len(call.cfg.prefix) + 1) - 1)

\* C2: a value at cfg.Path whose embedded version differs from
\* prefix+currentVersion makes UpdateYAMLFile (here: called for a new version
\* that differs from the current one) fail with a version-mismatch error
\* whose text holds the expected and the found version, and the file is left
\* unmodified.
C2_DifferentVersionRejected ==
    (/\ Done /\ Addressed # 0
     /\ call.newVersion # call.currentVersion
     /\ FoundVersion # <<>> /\ FoundCore # OldVersionStr)
        => /\ call.result.err = "version mismatch"
           /\ Contains(call.result.text, OldVersionStr)
           /\ Contains(call.result.text, FoundVersion)
           /\ file = call.before

\* The value at cfg.Path holds a version, with or without the configured
\* prefix, and the current version occurs nowhere in it, with or without the
\* prefix.
HoldsOtherVersion ==
    /\ Done /\ Addressed # 0
    /\ ~Contains(ValueBefore, call.currentVersion)
    /\ \/ findEmbeddedVersion(ValueBefore, call.cfg.prefix) # <<>>
       \/ findEmbeddedVersion(ValueBefore, <<>>) # <<>>

\* C3: a value whose version is not prefix+currentVersion is never
\* overwritten: the call returns an error and the file is not written.
C3_NoSilentOverwrite ==
    HoldsOtherVersion => (call.result.err # "" /\ file = call.before)

\* C4: in a document where a second, different key holds the same literal
\* value as the addressed key, a successful update leaves the line of that
\* other key as it was.
C4_OtherKeyUntouched ==
    Succeeded =>
        \A m \in 1..Len(BeforeLines) :
            LET e == ParseLine(BeforeLines[m])
            IN  (/\ m # Addressed
                 /\ e.kind = "entry" /\ e.hasValue
                 /\ e.key # AddressedEntry.key
                 /\ e.value = ValueBefore) => LineUnchanged(m)

\* C5: the output is the input with one substitution, at the addressed key:
\* an occurrence of the same leaf key with the same value at another place
\* of the document is not touched.
C5_OnlyAddressedOccurrence ==
    Succeeded =>
        /\ Len(AfterLines) = Len(BeforeLines)
        /\ \A m \in 1..Len(BeforeLines) :
              LET e == ParseLine(BeforeLines[m])
              IN  (/\ m # Addressed
                   /\ e.kind = "entry" /\ e.hasValue
                   /\ e.key = AddressedEntry.key
                   /\ e.value = ValueBefore) => LineUnchanged(m)

\* C6: a call that returns an error (invalid path, path not found, version
\* mismatch, no textual match) leaves the file as it was and writes nothing;
\* the file is written only by a call that returns no error.
C6_NoPartialWrite ==
    Done => /\ call.result.err # "" => (file = call.before /\ ~call.result.wrote)
            /\ call.result.wrote => call.result.err = ""

C6_Witness ==
    /\ Done /\ call.result.err = "no match"
    /\ Addressed # 0
    /\ file = call.before

\* C7: after a successful update every comment of the input (a comment
\* line, an inline comment) stands verbatim on the same line of the output.
C7_CommentsPreserved ==
    Succeeded =>
        /\ Len(AfterLines) = Len(BeforeLines)
        /\ \A m \in 1..Len(BeforeLines) :
              /\ m <= Len(AfterLines)
              /\ CommentOf(AfterLines[m]) = CommentOf(BeforeLines[m])

\* C8: after a successful update the addressed entry has the quoting style
\* it had (double-quoted, single-quoted, unquoted) and the same blanks
\* between `key:` and the value.
C8_QuoteStylePreserved ==
    Succeeded =>
        LET a == ParseLine(AfterLines[Addressed])
        IN  /\ Addressed <= Len(AfterLines)
            /\ a.kind = "entry" /\ a.hasValue
            /\ a.key = AddressedEntry.key
            /\ a.style = AddressedEntry.style
            /\ a.pad = AddressedEntry.pad

C8_Witness ==
    /\ Succeeded
    /\ AddressedEntry.style = "'" /\ AddressedEntry.pad = 2
    /\ AfterLines[Addressed] # BeforeLines[Addressed]
    /\ ParseLine(AfterLines[Addressed]).style = "'"

\* C9: a successful update with currentVersion = newVersion, of a value that
\* holds prefix+currentVersion, leaves the file byte for byte as it was.
C9_EqualVersionsIdentity ==
    (/\ Succeeded /\ Addressed # 0
     /\ call.currentVersion = call.newVersion
     /\ Contains(ValueBefore, OldVersionStr)) => file = call.before

\* A candidate after a colon in the middle of the string: at value[i] stands
\* a colon, then the prefix, then N.N.N with an optional -prerelease, and the
\* version ends before the end of the string. The candidate's end, else 0.
ColonCandidateEnd(value, prefix, i) ==
    LET e == SemverEnd(value, i + 1 + Len(prefix))
    IN  IF LitAt(value, i, <<":">> \o prefix) /\ e # 0 /\ e <= Len(value)
        THEN e ELSE 0

\* A candidate at the very end of the string: at value[j] stands the prefix,
\* then N.N.N with an optional -prerelease, up to the end of the string.
EndCandidate(value, prefix, j) ==
    LitAt(value, j, prefix) /\ SemverEnd(value, j + Len(prefix)) = Len(value) + 1

\* The value probed has a candidate after a mid-string colon at i and, after
\* it, a candidate at the end of the string at j.
TwoCandidates(i, j) ==
    /\ probe.applied
    /\ ColonCandidateEnd(probe.value, probe.prefix, i) # 0
    /\ j >= ColonCandidateEnd(probe.value, probe.prefix, i)
    /\ EndCandidate(probe.value, probe.prefix, j)

Positions == 1..Len(probe.value)

IsNumber(t) == t # <<>> /\ \A k \in 1..Len(t) : t[k] \in Digits

\* N.N.N
IsCore(t) ==
    \E a \in 1..Len(t), b \in 1..Len(t) :
        /\ a < b /\ t[a] = "." /\ t[b] = "."
        /\ IsNumber(SubSeq(t, 1, a - 1))
        /\ IsNumber(SubSeq(t, a + 1, b - 1))
        /\ IsNumber(SubSeq(t, b + 1, Len(t)))

\* N.N.N optionally followed by -prerelease (letters, digits and dots).
IsVersion(t) ==
    \/ IsCore(t)
    \/ \E h \in 1..(Len(t) - 1) :
           /\ t[h] = "-" /\ IsCore(SubSeq(t, 1, h - 1))
           /\ \A k \in (h + 1)..Len(t) : t[k] \in PreChars

\* value[i..j] is prefix + version, and it stands right after a colon or at
\* the end of the value.
Qualifies(value, prefix, i, j) ==
    /\ i <= j
    /\ LitAt(value, i, prefix)
    /\ IsVersion(SubSeq(value, i + Len(prefix), j))
    /\ (CharAt(value, i - 1) = ":" \/ j = Len(value))

\* C11: findEmbeddedVersion returns a non-empty result only when the value
\* holds prefix + N.N.N(-prerelease) right after a colon or at its end, the
\* result is then such a substring (with the prefix, without the colon), and
\* for a value with no such substring the result is empty.
C11_OnlyColonOrEndVersions ==
    probe.applied =>
        /\ probe.result # <<>> =>
               \E i \in Positions, j \in Positions :
                   /\ Qualifies(probe.value, probe.prefix, i, j)
                   /\ probe.result = SubSeq(probe.value, i, j)
        /\ (~\E i \in Positions, j \in Positions :
                Qualifies(probe.value, probe.prefix, i, j))
               => probe.result = <<>>

\* An image tag followed by a path: the version after the colon is returned.
C11_Witness ==
    /\ probe.applied
    /\ probe.value = Chars("r:2.0.0-rc.1/api")
    /\ probe.prefix = <<>>
    /\ probe.result = Chars("2.0.0-rc.1")

----------------------------------------------------------------------------
(* convertToYAMLPath as a pure function, applied to addresses drawn from a *)
(* bounded set.                                                            *)

AddressLeads == {<<>>, Chars("."), Chars(".."), Chars("$.")}

AddressKeys == {Chars("version"), Chars("image"), Chars("containers[0]"), Chars("a")}

AddressTails == {<<>>, Chars(".tag"), Chars(".spec.image"), Chars("[1].name")}

Addresses ==
    {l \o k \o t : l \in AddressLeads, k \in AddressKeys, t \in AddressTails}
    \cup {<<>>, Chars("$")}

ConvertInit ==
    /\ file = <<>>
    /\ pc = "ready"
    /\ call = NoCall
    /\ probe \in {[applied |-> FALSE, path |-> a, result |-> convertToYAMLPath(<<>>)] :
                      a \in Addresses}

Convert ==
    /\ ~probe.applied
    /\ probe' = [probe EXCEPT !.applied = TRUE,
                              !.result = convertToYAMLPath(probe.path)]
    /\ UNCHANGED <<file, pc, call>>

ConvertNext == Convert

ConvertSpec == ConvertInit /\ [][ConvertNext]_vars

\* The address an error text tells the caller to use: the text names c as
\*   use "c" instead
Advises(text, c) == Contains(text, Chars("use ") \o Quote(c) \o Chars(" instead"))

\* The suffixes of an address.
Suffixes(a) == {SubSeq(a, k, Len(a)) : k \in 1..(Len(a) + 1)}

\* C12: the empty address and every address that begins with "." are
\* rejected; the error for a leading-dot address names a corrected address
\* that is itself accepted; every other address that does not start with "$"
\* is accepted and mapped to "$." followed by the address.
C12_LeadingDotRejectedWithAcceptedAdvice ==
    probe.applied =>
        /\ probe.path = <<>> => probe.result.err
        /\ HasPrefix(probe.path, <<".">>) =>
               /\ probe.result.err
               /\ \E c \in Suffixes(probe.path) :
                      /\ Advises(probe.result.text, c)
                      /\ ~convertToYAMLPath(c).err
        /\ (probe.path # <<>> /\ ~HasPrefix(probe.path, <<".">>)
            /\ ~HasPrefix(probe.path, <<"$">>)) =>
               /\ ~probe.result.err
               /\ probe.result.path = <<"$", ".">> \o probe.path

----------------------------------------------------------------------------
(* parsePath: a dot-notation path with optional brackets, parsed into       *)
(* navigation steps.                                                        *)

\* The length of the longest run of characters outside class X that starts
\* at s[p].
RunNot(s, p, X) ==
    IF p > Len(s) THEN 0
    ELSE CHOOSE n \in 0..(Len(s) - p + 1) :
             /\ \A j \in 0..(n - 1) : s[p + j] \notin X
             /\ (p + n > Len(s) \/ s[p + n] \in X)

\* strconv.Atoi of a run of digits.
RECURSIVE Atoi(_)
Atoi(t) ==
    IF t = <<>> THEN 0
    ELSE 10 * Atoi(SubSeq(t, 1, Len(t) - 1)) + DigitValue(t[Len(t)])

\* strings.Trim(s, cutset): every leading and every trailing character of
\* the cutset is removed.
RECURSIVE Trim(_, _)
Trim(s, cutset) ==
    IF s = <<>> THEN s
    ELSE IF Head(s) \in cutset THEN Trim(Tail(s), cutset)
    ELSE IF s[Len(s)] \in cutset THEN Trim(SubSeq(s, 1, Len(s) - 1), cutset)
    ELSE s

\* The characters that end a key:  [^.\[\]]
KeyStops == {".", "[", "]"}

\* The end (exclusive) of the match of  \[(\d+|"[^"]*"|'[^']*')\]  at s[p],
\* 0 when the bracket does not match there. The alternatives are tried in
\* the order of the expression.
BracketEnd(s, p) ==
    With(Run(s, p + 1, Digits), LAMBDA d :
    With(CharAt(s, p + 1), LAMBDA q :
    With(RunNot(s, p + 2, {q}), LAMBDA n :
        IF CharAt(s, p) # "[" THEN 0
        ELSE IF d > 0 /\ CharAt(s, p + 1 + d) = "]" THEN p + d + 2
        ELSE IF q \in {"\"", "'"} /\ CharAt(s, p + 2 + n) = q
                /\ CharAt(s, p + 3 + n) = "]"
        THEN p + n + 4
        ELSE 0)))

\* The steps of one matched segment: key is group 1, indexStr group 2 (<<>>
\* when the bracket is absent).
SegmentParts(key, hasIndex, indexStr) ==
    IF ~hasIndex THEN <<[Key |-> key, Index |-> -1]>>
    ELSE IF \A k \in 1..Len(indexStr) : indexStr[k] \in Digits
    THEN <<[Key |-> key, Index |-> Atoi(indexStr)]>>
    ELSE <<[Key |-> key, Index |-> -1],
           [Key |-> Trim(indexStr, {"\"", "'"}), Index |-> -1]>>

\* parsePath: the leftmost match of the segment expression in what remains
\* of the path gives the next steps; the rest is parsed after the match and
\* one following dot.
RECURSIVE parsePath(_)
parsePath(remaining) ==
    IF remaining = <<>> THEN [err |-> FALSE, parts |-> <<>>]
    ELSE With(Run(remaining, 1, KeyStops), LAMBDA skip :
         With(RunNot(remaining, skip + 1, KeyStops), LAMBDA klen :
         With(skip + 1 + klen, LAMBDA e :
         With(BracketEnd(remaining, e), LAMBDA b :
         With(IF b = 0 THEN e ELSE b, LAMBDA end :
             IF klen = 0 THEN [err |-> TRUE, parts |-> <<>>]
             ELSE With(parsePath(TrimPrefix(SubSeq(remaining, end, Len(remaining)),
                                            <<".">>)),
                       LAMBDA rest :
                      IF rest.err THEN rest
                      ELSE [err |-> FALSE,
                            parts |-> SegmentParts(
                                          SubSeq(remaining, skip + 1, e - 1),
                                          b # 0,
                                          SubSeq(remaining, e + 1, b - 2))
                                      \o rest.parts]))))))

\* Paths are written from segments: a plain key, key[N], key["lit"] or
\* key['lit'].
MaxSegments == 2

PlainSegments ==
    {[kind |-> "plain", key |-> Chars(k), index |-> -1, quote |-> "", lit |-> <<>>] :
         k \in {"image", "tag"}}

IndexSegments ==
    {[kind |-> "index", key |-> Chars("containers"), index |-> n, quote |-> "",
      lit |-> <<>>] : n \in {0, 12}}

\* A literal key may hold quote characters of the other kind.
QuotedSegments ==
    {[kind |-> "quoted", key |-> Chars("labels"), index |-> -1, quote |-> q[1],
      lit |-> Chars(q[2])] :
         q \in {<<"\"", "app.io/version">>, <<"'", "app.io/version">>,
                <<"\"", "it's">>, <<"\"", "'x'">>}}

Segments == PlainSegments \cup IndexSegments \cup QuotedSegments

SegmentLists == UNION {[1..n -> Segments] : n \in 1..MaxSegments}

\* The decimal digits of a natural number.
RECURSIVE Itoa(_)
Itoa(n) ==
    IF n < 10 THEN <<CHOOSE c \in Digits : DigitValue(c) = n>>
    ELSE Itoa(n \div 10) \o Itoa(n % 10)

\* The text of a segment, and of a path (segments joined by dots).
SegmentText(g) ==
    CASE g.kind = "plain"  -> g.key
      [] g.kind = "index"  -> g.key \o <<"[">> \o Itoa(g.index) \o <<"]">>
      [] g.kind = "quoted" -> g.key \o <<"[", g.quote>> \o g.lit \o <<g.quote, "]">>

RECURSIVE PathText(_)
PathText(gs) ==
    IF Len(gs) = 1 THEN SegmentText(gs[1])
    ELSE SegmentText(gs[1]) \o <<".">> \o PathText(Tail(gs))

ParseInit ==
    /\ file = <<>>
    /\ pc = "ready"
    /\ call = NoCall
    /\ probe \in {[applied |-> FALSE, segments |-> gs, path |-> PathText(gs),
                   result |-> parsePath(<<>>)] : gs \in SegmentLists}

Parse ==
    /\ ~probe.applied
    /\ probe' = [probe EXCEPT !.applied = TRUE, !.result = parsePath(probe.path)]
    /\ UNCHANGED <<file, pc, call>>

ParseNext == Parse

ParseSpec == ParseInit /\ [][ParseNext]_vars

\* The steps the claim gives for one segment, and for a list of segments.
StepsOf(g) ==
    CASE g.kind = "plain"  -> <<[Key |-> g.key, Index |-> -1]>>
      [] g.kind = "index"  -> <<[Key |-> g.key, Index |-> g.index]>>
      [] g.kind = "quoted" -> <<[Key |-> g.key, Index |-> -1],
                                [Key |-> g.lit, Index |-> -1]>>

RECURSIVE StepsOfAll(_)
StepsOfAll(gs) ==
    IF gs = <<>> THEN <<>> ELSE StepsOf(Head(gs)) \o StepsOfAll(Tail(gs))

\* C13: parsePath returns the steps in root-to-leaf order: a plain segment
\* gives one step with the key and no index, key[N] one step with the key
\* and index N, key["lit"] or key['lit'] two steps without index, the outer
\* key and then the literal key.
C13_StepsInOrder ==
    probe.applied =>
        /\ ~probe.result.err
        /\ probe.result.parts = StepsOfAll(probe.segments)

----------------------------------------------------------------------------
(* updateNodeAtPath and the UpdateYAMLFile built on it (the yaml.v3        *)
(* version of the updater): the document is a tree of nodes.               *)

\* yaml.v3 nodes. A mapping's Content alternates key nodes and value nodes.
Scalar(v) == [Kind |-> "scalar", Value |-> v, Content |-> <<>>]

Mapping(content) == [Kind |-> "mapping", Value |-> <<>>, Content |-> content]

Sequence(content) == [Kind |-> "sequence", Value |-> <<>>, Content |-> content]

Document(content) == [Kind |-> "document", Value |-> <<>>, Content |-> content]

\* The number %v prints for a yaml.Kind.
KindNumber(kind) ==
    CASE kind = "document" -> 1 [] kind = "sequence" -> 2
      [] kind = "mapping" -> 4 [] kind = "scalar" -> 8

\* The position in a mapping's Content of the first key node equal to key,
\* 0 when there is none.
KeyPosition(content, key) ==
    With({i \in 1..Len(content) : i % 2 = 1 /\ content[i].Value = key}, LAMBDA I :
        IF I = {} THEN 0 ELSE Smallest(I))

\* The outcome of updateNodeAtPath: the error text (<<>> for nil) and the
\* node as the call leaves it.
Outcome(text, node) == [err |-> text, node |-> node]

\* node with Content[i] replaced by the node of an outcome; the error of the
\* outcome is passed on.
WithChild(node, i, out) ==
    Outcome(out.err, [node EXCEPT !.Content[i] = out.node])

RECURSIVE updateNodeAtPath(_, _, _)

\* The last step sets the Value of the node reached; before the last step
\* the rest of the path is followed from that node.
UpdateOrDescend(child, rest, value) ==
    IF rest = <<>> THEN Outcome(<<>>, [child EXCEPT !.Value = value])
    ELSE updateNodeAtPath(child, rest, value)

\* A mapping that gets the missing key, with the value, instead of an error.
KeyNotFound_Upsert(node, key, value) ==
    Outcome(<<>>, [node EXCEPT !.Content = @ \o <<Scalar(key), Scalar(value)>>])

\* No key node of the mapping has the key of the step.
KeyNotFound(node, key, value) ==
    Outcome(Chars("key ") \o key \o Chars(" not found"), node)

\* The step path[1] applied to the value node at Content[i] of a mapping:
\* with an index the value node must be a sequence that has the element.
UpdateValueNode(node, i, path, value) ==
    With(node.Content[i], LAMBDA valueNode :
        IF path[1].Index < 0
        THEN WithChild(node, i, UpdateOrDescend(valueNode, Tail(path), value))
        ELSE IF valueNode.Kind # "sequence"
        THEN Outcome(Chars("expected sequence at ") \o path[1].Key \o Chars(", got ")
                     \o Itoa(KindNumber(valueNode.Kind)), node)
        ELSE IF path[1].Index >= Len(valueNode.Content)
        THEN Outcome(Chars("index ") \o Itoa(path[1].Index)
                     \o Chars(" out of bounds for ") \o path[1].Key
                     \o Chars(" (len=") \o Itoa(Len(valueNode.Content)) \o Chars(")"),
                     node)
        ELSE WithChild(node, i,
                       WithChild(valueNode, path[1].Index + 1,
                                 UpdateOrDescend(valueNode.Content[path[1].Index + 1],
                                                 Tail(path), value))))

updateNodeAtPath(node, path, value) ==
    IF path = <<>> THEN Outcome(Chars("empty path"), node)
    ELSE IF node.Kind = "document"
    THEN IF node.Content = <<>> THEN Outcome(Chars("empty document"), node)
         ELSE WithChild(node, 1, updateNodeAtPath(node.Content[1], path, value))
    ELSE IF node.Kind = "mapping"
    THEN With(KeyPosition(node.Content, path[1].Key), LAMBDA i :
             IF i = 0 THEN KeyNotFound(node, path[1].Key, value)
             ELSE UpdateValueNode(node, i + 1, path, value))
    ELSE IF node.Kind = "sequence"
    THEN IF path[1].Index < 0
         THEN Outcome(Chars("expected array index for sequence node"), node)
         ELSE IF path[1].Index >= Len(node.Content)
         THEN Outcome(Chars("index ") \o Itoa(path[1].Index)
                      \o Chars(" out of bounds (len=") \o Itoa(Len(node.Content))
                      \o Chars(")"), node)
         ELSE WithChild(node, path[1].Index + 1,
                        UpdateOrDescend(node.Content[path[1].Index + 1],
                                        Tail(path), value))
    ELSE Outcome(Chars("unexpected node kind: ") \o Itoa(KindNumber(node.Kind)), node)

\* UpdateYAMLFile of the yaml.v3 version, on a file that holds the document
\* doc: the error returned (<<>> for nil), the document in the file after
\* the call, the node tree in memory after it, and whether the file was
\* written.
UpdateYAMLFileV3(doc, cfg, version) ==
    With(parsePath(cfg.path), LAMBDA parsed :
        IF parsed.err
        THEN [err |-> Chars("parsing path ") \o cfg.path
                      \o Chars(": invalid path segment"),
              doc |-> doc, node |-> doc, wrote |-> FALSE]
        ELSE With(updateNodeAtPath(doc, parsed.parts, cfg.prefix \o version),
                  LAMBDA out :
                 IF out.err # <<>>
                 THEN [err |-> Chars("updating path ") \o cfg.path \o Chars(" in ")
                               \o cfg.file \o Chars(": ") \o out.err,
                       doc |-> doc, node |-> out.node, wrote |-> FALSE]
                 ELSE [err |-> <<>>, doc |-> out.node, node |-> out.node,
                       wrote |-> TRUE]))

\* A key node followed by its value node.
Pair(key, node) == <<Scalar(Chars(key)), node>>

\* The documents of the model: a chart-like document with a nested mapping
\* and a sequence of mappings, one with an empty sequence, a document whose
\* root is a sequence, and an empty document.
Documents ==
    { Document(<<Mapping(
          Pair("version", Scalar(Chars("1.0.0")))
          \o Pair("image", Mapping(Pair("tag", Scalar(Chars("1.0.0")))))
          \o Pair("containers",
                  Sequence(<<Mapping(Pair("image", Scalar(Chars("a:1.0.0")))),
                             Mapping(Pair("image", Scalar(Chars("b:1.0.0"))))>>)))>>),
      Document(<<Mapping(
          Pair("image", Scalar(Chars("1.0.0")))
          \o Pair("containers", Sequence(<<>>)))>>),
      Document(<<Sequence(<<Scalar(Chars("1.0.0")),
                            Mapping(Pair("version", Scalar(Chars("1.0.0"))))>>)>>),
      Document(<<>>) }

NodePaths ==
    {Chars(a) : a \in {"version", "image.tag", "image", "missing", "image.missing",
                       "containers[0].image", "containers[1].image",
                       "containers[2].image", "containers[0].missing",
                       "containers.image", "image[0]", "version[1]",
                       "version.tag", "a[1].version", ""}}

NodeInit ==
    /\ file \in Documents
    /\ pc = "ready"
    /\ call = NoCall
    /\ probe = NoProbe

\* One call of the yaml.v3 UpdateYAMLFile on the file.
UpdateV3 ==
    /\ pc = "ready"
    /\ \E path \in NodePaths, prefix \in Prefixes, version \in Versions :
          With([file |-> FileName, path |-> path, prefix |-> prefix], LAMBDA cfg :
          With(UpdateYAMLFileV3(file, cfg, version), LAMBDA result :
              /\ file' = result.doc
              /\ call' = [cfg |-> cfg, version |-> version, before |-> file,
                          steps |-> parsePath(path).parts, result |-> result]))
    /\ pc' = "done"
    /\ UNCHANGED probe

NodeNext == UpdateV3

NodeSpec == NodeInit /\ [][NodeNext]_vars

\* Where following the steps from a node stops, as the claim describes it:
\* at a key step whose key the mapping does not hold ("key"), at an index
\* step on a sequence with at most index elements ("bounds") or on a node
\* that is not a sequence ("notseq"); "none" when every step can be taken,
\* "other" when a key step meets a node that is not a mapping.
RECURSIVE Stops(_, _)
Stops(node, steps) ==
    LET step == steps[1]
        i == KeyPosition(node.Content, step.Key)
        v == node.Content[i + 1]
        Stop(kind) == [kind |-> kind, key |-> step.Key, index |-> step.Index,
                       len |-> IF kind = "bounds" THEN Len(v.Content) ELSE 0]
    IN  IF steps = <<>> THEN [kind |-> "none", key |-> <<>>, index |-> -1, len |-> 0]
        ELSE IF node.Kind = "document" /\ node.Content # <<>>
        THEN Stops(node.Content[1], steps)
        ELSE IF node.Kind # "mapping" THEN Stop("other")
        ELSE IF i = 0 THEN Stop("key")
        ELSE IF step.Index < 0 THEN Stops(v, Tail(steps))
        ELSE IF v.Kind # "sequence" THEN Stop("notseq")
        ELSE IF step.Index >= Len(v.Content) THEN Stop("bounds")
        ELSE Stops(v.Content[step.Index + 1], Tail(steps))

StopsAt == Stops(call.before, call.steps)

\* The call failed and neither the file nor the node tree was modified.
FailedUntouched ==
    /\ call.result.err # <<>>
    /\ ~call.result.wrote
    /\ file = call.before
    /\ call.result.node = call.before

\* C14: locating the value fails, and neither the document nor the file is
\* modified, when a key step names a key the mapping does not hold (the
\* error names the key), when an index step meets a sequence with at most
\* index elements (the error names the index and the length) and when an
\* index step meets a node that is not a sequence.
C14_LocateFailsUntouched ==
    Done =>
        /\ StopsAt.kind = "key" =>
               /\ FailedUntouched
               /\ Contains(call.result.err,
                           Chars("key ") \o StopsAt.key \o Chars(" not found"))
        /\ StopsAt.kind = "bounds" =>
               /\ FailedUntouched
               /\ Contains(call.result.err, Chars("index ") \o Itoa(StopsAt.index))
               /\ Contains(call.result.err,
                           Chars("len=") \o Itoa(StopsAt.len))
        /\ StopsAt.kind = "notseq" => FailedUntouched

\* containers[2].image in a document whose containers has two elements.
C14_Witness ==
    /\ Done
    /\ call.cfg.path = Chars("containers[2].image")
    /\ StopsAt.kind = "bounds" /\ StopsAt.len = 2
    /\ FailedUntouched

----------------------------------------------------------------------------
(* updateAllFiles: the VERSION file, then every configured YAML target,    *)
(* then helm-docs. The writer, the updater and helm-docs are dependencies  *)
(* of the function: each call of one of them succeeds or returns an error. *)

MaxTargets == 3

\* cfg.VersionFiles: the targets t1, t2, ...
TargetLists == {[i \in 1..n |-> [File |-> i, Path |-> Chars("version")]] :
                    n \in 0..MaxTargets}

HelmDocsArgsValues == {<<>>, Chars("--chart-search-root=charts")}

\* UpdateResult
HasErrors(r) == Len(r.Errors) > 0

\* errors.Join of the errors, nil when there is none.
CombinedError(r) ==
    IF Len(r.Errors) = 0 THEN [nil |-> TRUE, joined |-> <<>>]
    ELSE [nil |-> FALSE, joined |-> r.Errors]

\* A step of updateAllFiles: "writing version file", "updating" the target
\* of a number, or "running helm-docs".
Step(kind, target) == [kind |-> kind, target |-> target]

\* fmt.Errorf("...: %w", err): the error of a step, wrapped.
Wrap(step, err) == [step |-> step, cause |-> err]

\* The errors a dependency may return (nil for success).
StepErrors == {"nil", "failed"}

\* The state of a running updateAllFiles: its configuration, the next
\* target, the steps attempted and those that failed (in order), and the
\* UpdateResult being built.
AllFilesInit ==
    /\ file = <<>>
    /\ pc = "version"
    /\ probe = NoProbe
    /\ call \in {[cfg |-> [VersionFile |-> Chars("VERSION"), VersionFiles |-> ts,
                           HelmDocsArgs |-> h],
                  next |-> 1, attempted |-> <<>>, failed |-> <<>>,
                  result |-> [HelmDocsFiles |-> <<>>, Errors |-> <<>>]] :
                     ts \in TargetLists, h \in HelmDocsArgsValues}

\* The call as it is after a step that returned err.
AfterStep(step, err) ==
    [call EXCEPT !.attempted = Append(@, step),
                 !.failed = IF err = "nil" THEN @ ELSE Append(@, step),
                 !.result.Errors = IF err = "nil" THEN @
                                   ELSE Append(@, Wrap(step, err))]

\* deps.VersionWriter.WriteVersion(cfg.VersionFile, newVersion)
WriteVersionStep ==
    /\ pc = "version"
    /\ \E err \in StepErrors : call' = AfterStep(Step("writing version file", 0), err)
    /\ pc' = "yaml"
    /\ UNCHANGED <<file, probe>>

\* A step that gives up on the targets after a failed write of VERSION.
UpdateYAMLStep_SkipAfterFailure ==
    /\ pc = "yaml"
    /\ IF call.next > Len(call.cfg.VersionFiles) \/ call.failed # <<>>
       THEN pc' = "helm" /\ call' = call
       ELSE /\ \E err \in StepErrors :
                  call' = [AfterStep(Step("updating", call.cfg.VersionFiles[call.next].File), err)
                               EXCEPT !.next = @ + 1]
            /\ pc' = "yaml"
    /\ UNCHANGED <<file, probe>>

\* One iteration of the loop over cfg.VersionFiles, or its end.
UpdateYAMLStep ==
    /\ pc = "yaml"
    /\ IF call.next > Len(call.cfg.VersionFiles)
       THEN pc' = "helm" /\ call' = call
       ELSE /\ \E err \in StepErrors :
                  call' = [AfterStep(Step("updating", call.cfg.VersionFiles[call.next].File), err)
                               EXCEPT !.next = @ + 1]
            /\ pc' = "yaml"
    /\ UNCHANGED <<file, probe>>

\* helm-docs runs when cfg.HelmDocsArgs is not empty; the files it modified
\* are kept when it succeeds.
HelmDocsStep ==
    /\ pc = "helm"
    /\ IF call.cfg.HelmDocsArgs = <<>>
       THEN call' = call
       ELSE \E err \in StepErrors :
                call' = [AfterStep(Step("running helm-docs", 0), err) EXCEPT
                             !.result.HelmDocsFiles =
                                 IF err = "nil" THEN <<Chars("README.md")>> ELSE @]
    /\ pc' = "done"
    /\ UNCHANGED <<file, probe>>

AllFilesNext == WriteVersionStep \/ UpdateYAMLStep \/ HelmDocsStep

AllFilesSpec == AllFilesInit /\ [][AllFilesNext]_vars

\* The steps updateAllFiles has to attempt for a configuration.
StepsToAttempt(cfg) ==
    <<Step("writing version file", 0)>>
    \o [i \in 1..Len(cfg.VersionFiles) |-> Step("updating", cfg.VersionFiles[i].File)]
    \o (IF cfg.HelmDocsArgs = <<>> THEN <<>> ELSE <<Step("running helm-docs", 0)>>)

\* C15: updateAllFiles attempts the VERSION write and every YAML target
\* whatever failed before, and the UpdateResult holds exactly one error per
\* failed step: as many errors as failed steps, HasErrors true exactly when
\* there is one, CombinedError nil exactly when there is none.
C15_AllStepsAttemptedOneErrorEach ==
    Done =>
        /\ call.attempted = StepsToAttempt(call.cfg)
        /\ Len(call.result.Errors) = Len(call.failed)
        /\ \A k \in 1..Len(call.failed) : call.result.Errors[k].step = call.failed[k]
        /\ HasErrors(call.result) <=> Len(call.failed) > 0
        /\ CombinedError(call.result).nil <=> Len(call.failed) = 0

\* The VERSION write failed, and two targets were attempted after it, one of
\* which failed as well.
C15_Witness ==
    /\ Done
    /\ Len(call.cfg.VersionFiles) >= 2
    /\ call.failed = <<Step("writing version file", 0), Step("updating", 2)>>
    /\ Len(call.result.Errors) = 2

----------------------------------------------------------------------------
(* Package version: Parse, String, Bump, Compare, and bumpVersion of the   *)
(* command. The int of Go is 64 bits wide; the model keeps the wrap-around *)
(* of its arithmetic and the range check of strconv.Atoi on a narrower     *)
(* two's complement int of IntBits bits.                                   *)

IntBits == 4

RECURSIVE Pow2(_)
Pow2(n) == IF n = 0 THEN 1 ELSE 2 * Pow2(n - 1)

MaxInt == Pow2(IntBits - 1) - 1

MinInt == 0 - Pow2(IntBits - 1)

\* The int that an arithmetic result n is stored as.
WrapInt(n) == ((n - MinInt) % Pow2(IntBits)) + MinInt

\* strconv.Atoi: an optional sign and at least one digit, nothing else; a
\* value outside the int range is an error.
StrconvAtoi(s) ==
    With(IF s # <<>> /\ Head(s) \in {"+", "-"} THEN Tail(s) ELSE s, LAMBDA digits :
        IF digits = <<>> \/ Run(digits, 1, Digits) # Len(digits)
        THEN [err |-> "syntax", n |-> 0]
        ELSE With(IF Head(s) = "-" THEN 0 - Atoi(digits) ELSE Atoi(digits), LAMBDA n :
                 IF n > MaxInt \/ n < MinInt
                 THEN [err |-> "range", n |-> IF n > MaxInt THEN MaxInt ELSE MinInt]
                 ELSE [err |-> "", n |-> n]))

\* %d of an int.
FormatInt(n) == IF n < 0 THEN <<"-">> \o Itoa(0 - n) ELSE Itoa(n)

\* The white space of Unicode that strings.TrimSpace removes: that of Space,
\* the vertical tab, and (among those beyond ASCII) the no-break space.
WhiteSpace == Space \cup {"<VT>", "<NBSP>"}

\* strings.TrimSpace
TrimSpace(s) == Trim(s, WhiteSpace)

Version(major, minor, patch) == [Major |-> major, Minor |-> minor, Patch |-> patch]

NoVersion == Version(0, 0, 0)

\* version.Parse: an optional v, MAJOR.MINOR.PATCH, no negative component.
VersionParse(str) ==
    With(Split(TrimSpace(TrimPrefix(str, <<"v">>)), "."), LAMBDA parts :
        IF Len(parts) # 3
        THEN [err |-> "invalid version format", v |-> NoVersion]
        ELSE With(StrconvAtoi(parts[1]), LAMBDA major :
             With(StrconvAtoi(parts[2]), LAMBDA minor :
             With(StrconvAtoi(parts[3]), LAMBDA patch :
                 IF major.err # "" THEN [err |-> "invalid major version", v |-> NoVersion]
                 ELSE IF minor.err # "" THEN [err |-> "invalid minor version", v |-> NoVersion]
                 ELSE IF patch.err # "" THEN [err |-> "invalid patch version", v |-> NoVersion]
                 ELSE IF major.n < 0 \/ minor.n < 0 \/ patch.n < 0
                 THEN [err |-> "version components cannot be negative", v |-> NoVersion]
                 ELSE [err |-> "", v |-> Version(major.n, minor.n, patch.n)]))))

\* Version.String
String(v) ==
    FormatInt(v.Major) \o <<".">> \o FormatInt(v.Minor) \o <<".">> \o FormatInt(v.Patch)

UpperCase == Chars("ABCDEFGHIJKLMNOPQRSTUVWXYZ")

LowerCase == Chars("abcdefghijklmnopqrstuvwxyz")

\* strings.ToLower
ToLower(s) ==
    [i \in 1..Len(s) |->
        IF \E k \in 1..26 : UpperCase[k] = s[i]
        THEN LowerCase[CHOOSE k \in 1..26 : UpperCase[k] = s[i]]
        ELSE s[i]]

\* Version.Bump: the new version, and the receiver as the call leaves it.
Bump(v, bumpType) ==
    CASE ToLower(bumpType) = Chars("major") ->
             [err |-> "", v |-> Version(WrapInt(v.Major + 1), 0, 0), receiver |-> v]
      [] ToLower(bumpType) = Chars("minor") ->
             [err |-> "", v |-> Version(v.Major, WrapInt(v.Minor + 1), 0), receiver |-> v]
      [] ToLower(bumpType) = Chars("patch") ->
             [err |-> "", v |-> Version(v.Major, v.Minor, WrapInt(v.Patch + 1)), receiver |-> v]
      [] OTHER -> [err |-> "invalid bump type", v |-> NoVersion, receiver |-> v]

cmpInt(a, b) == IF a < b THEN 0 - 1 ELSE IF a > b THEN 1 ELSE 0

\* Version.Compare
Compare(v, other) ==
    IF cmpInt(v.Major, other.Major) # 0 THEN cmpInt(v.Major, other.Major)
    ELSE IF cmpInt(v.Minor, other.Minor) # 0 THEN cmpInt(v.Minor, other.Minor)
    ELSE cmpInt(v.Patch, other.Patch)

CompareVersions(a, b) ==
    With(VersionParse(a), LAMBDA va :
        IF va.err # "" THEN [err |-> "parsing version a", cmp |-> 0]
        ELSE With(VersionParse(b), LAMBDA vb :
                 IF vb.err # "" THEN [err |-> "parsing version b", cmp |-> 0]
                 ELSE [err |-> "", cmp |-> Compare(va.v, vb.v)]))

IsGreaterE(a, b) ==
    With(CompareVersions(a, b), LAMBDA c :
        IF c.err # "" THEN [err |-> c.err, greater |-> FALSE]
        ELSE [err |-> "", greater |-> c.cmp > 0])

BumpFailure(text) == [err |-> text, currentVersion |-> <<>>, newVersion |-> NoVersion]

\* bumpVersion: read is what reader.ReadVersion(cfg.VersionFile) returns.
bumpVersion(cfg, read) ==
    IF read.err # "" THEN BumpFailure("reading version")
    ELSE With(VersionParse(read.version), LAMBDA parsed :
        IF parsed.err # "" THEN BumpFailure("parsing version")
        ELSE With(Bump(parsed.v, cfg.BumpType), LAMBDA bumped :
            IF bumped.err # "" THEN BumpFailure("bumping version")
            ELSE With(IsGreaterE(String(bumped.v), read.version), LAMBDA g :
                IF g.err # "" THEN BumpFailure("comparing versions")
                ELSE IF ~g.greater THEN BumpFailure("new version is not greater than current")
                ELSE [err |-> "", currentVersion |-> read.version, newVersion |-> bumped.v])))

\* The texts of a version component: small numbers, the largest int, the
\* number after it, signed numbers and a word.
ComponentTexts ==
    {Chars("0"), Chars("1"), Itoa(MaxInt), Itoa(MaxInt + 1),
     Chars("+1"), Chars("-1"), Chars("x")}

VersionTexts ==
    {p \o a \o <<".">> \o b \o <<".">> \o c :
        p \in Prefixes, a \in ComponentTexts, b \in ComponentTexts, c \in ComponentTexts}
    \cup {<<>>, Chars("1.2"), Chars("1.2.3.4"), Chars("invalid-version"), Chars(" 1.2.3")}

\* What reader.ReadVersion returns: the version text, or an error.
Reads ==
    {[err |-> "", version |-> t] : t \in VersionTexts}
    \cup {[err |-> "file not found", version |-> <<>>]}

BumpTypes ==
    {Chars("major"), Chars("minor"), Chars("patch"), Chars("MAJOR"), Chars("Minor"),
     Chars("invalid"), <<>>}

BumpVersionInit ==
    /\ file \in Reads
    /\ pc = "ready"
    /\ probe = NoProbe
    /\ call \in {[cfg |-> [VersionFile |-> Chars("VERSION"), BumpType |-> b],
                  result |-> BumpFailure("not called")] : b \in BumpTypes}

BumpVersion ==
    /\ pc = "ready"
    /\ call' = [call EXCEPT !.result = bumpVersion(call.cfg, file)]
    /\ pc' = "done"
    /\ UNCHANGED <<file, probe>>

BumpVersionNext == BumpVersion

BumpVersionSpec == BumpVersionInit /\ [][BumpVersionNext]_vars

\* a is after b in the order of semantic versions.
After(a, b) ==
    \/ a.Major > b.Major
    \/ a.Major = b.Major /\ a.Minor > b.Minor
    \/ a.Major = b.Major /\ a.Minor = b.Minor /\ a.Patch > b.Patch

\* bumpVersion succeeds only with a new version after the current one.
SuccessOnlyIfGreater ==
    Done /\ call.result.err = "" =>
        /\ VersionParse(file.version).err = ""
        /\ After(call.result.newVersion, VersionParse(file.version).v)
        /\ Compare(call.result.newVersion, VersionParse(file.version).v) = 1

\* Every parseable version compares smaller than its bump.
EveryBumpGreater ==
    Done /\ file.err = "" /\ VersionParse(file.version).err = ""
         /\ call.cfg.BumpType \in {Chars("major"), Chars("minor"), Chars("patch")} =>
        Compare(Bump(VersionParse(file.version).v, call.cfg.BumpType).v,
                VersionParse(file.version).v) = 1

\* C16: the version always increases: bumpVersion returns success only if
\* the new version compares strictly greater than the current one, and for
\* every parseable current version and every bump type major, minor or
\* patch the bumped version compares strictly greater (Compare returns 1).
C16_VersionAlwaysIncreases == SuccessOnlyIfGreater /\ EveryBumpGreater

----------------------------------------------------------------------------
(* Version.Bump on its own: a version and a bump type, then the call.      *)

BumpComponents == {0, 1, 2, MaxInt}

BumpInit ==
    /\ file = <<>>
    /\ pc = "ready"
    /\ call = NoCall
    /\ probe \in {[applied |-> FALSE, v |-> Version(a, b, c), bumpType |-> t,
                   result |-> [err |-> "", v |-> NoVersion, receiver |-> Version(a, b, c)]] :
                      a \in BumpComponents, b \in BumpComponents, c \in BumpComponents,
                      t \in BumpTypes}

\* v.Bump(bumpType); probe.v is the receiver after the call.
BumpCall ==
    /\ pc = "ready"
    /\ With(Bump(probe.v, probe.bumpType), LAMBDA r :
           probe' = [probe EXCEPT !.applied = TRUE, !.result = r, !.v = r.receiver])
    /\ pc' = "done"
    /\ UNCHANGED <<file, call>>

BumpNext == BumpCall

BumpSpec == BumpInit /\ [][BumpNext]_vars

\* The bump type in lower case, spelled out letter by letter.
SameWord(t, word) ==
    /\ Len(t) = Len(word)
    /\ \A i \in 1..Len(t) :
          \E k \in 1..26 : LowerCase[k] = word[i] /\ t[i] \in {LowerCase[k], UpperCase[k]}

\* The receiver of the call, as it was given.
Receiver == probe.result.receiver

\* C17: Bump gives (Major+1, 0, 0) for major, (Major, Minor+1, 0) for minor
\* and (Major, Minor, Patch+1) for patch, whatever the case of the letters
\* of the bump type; every other bump type, the empty one included, is an
\* error; the receiver is left as it was.
C17_BumpNextVersion ==
    probe.applied =>
        /\ SameWord(probe.bumpType, Chars("major")) =>
              probe.result.err = "" /\ probe.result.v = Version(Receiver.Major + 1, 0, 0)
        /\ SameWord(probe.bumpType, Chars("minor")) =>
              probe.result.err = ""
              /\ probe.result.v = Version(Receiver.Major, Receiver.Minor + 1, 0)
        /\ SameWord(probe.bumpType, Chars("patch")) =>
              probe.result.err = ""
              /\ probe.result.v = Version(Receiver.Major, Receiver.Minor, Receiver.Patch + 1)
        /\ (\A w \in {Chars("major"), Chars("minor"), Chars("patch")} :
               ~SameWord(probe.bumpType, w)) => probe.result.err # ""
        /\ probe.v = Receiver

----------------------------------------------------------------------------
(* The VERSION file: ReadVersion and WriteVersion. The file is missing, or *)
(* holds a text; a call of the operating system may fail.                  *)

VersionFileContents ==
    {Chars("1.2.3"), Chars("1.2.3\n"), Chars("  1.2.3  \n"), Chars("v1.2.3\n"),
     <<>>, Chars("   \n"), <<"<VT>", "\n">>}

VersionArguments ==
    {Chars("1.2.3"), Chars("1.2.3\n"), Chars("  1.2.3  "), Chars("\n\t2.0.0\r\n"),
     <<"<NBSP>">> \o Chars("2.0.0") \o <<"<VT>">>, Chars("1.0 beta"),
     <<>>, Chars(" \n")}

Missing == [exists |-> FALSE, data |-> <<>>]

Stored(data) == [exists |-> TRUE, data |-> data]

\* ReadVersion, given the file as it is.
ReadVersion(f) ==
    IF ~f.exists THEN [err |-> "reading file", version |-> <<>>]
    ELSE IF TrimSpace(f.data) = <<>> THEN [err |-> "VERSION file is empty", version |-> <<>>]
    ELSE [err |-> "", version |-> TrimSpace(f.data)]

\* The content that WriteVersion writes, without the trimming.
WriteVersionContent_NoTrim(version) == version \o <<"\n">>

\* The content that WriteVersion writes for a version.
WriteVersionContent(version) == TrimSpace(version) \o <<"\n">>

NoWrite == [written |-> FALSE, version |-> <<>>]

VersionFileInit ==
    /\ file \in {Missing} \cup {Stored(d) : d \in VersionFileContents}
    /\ pc = "ready"
    /\ call = [op |-> "none", version |-> <<>>, err |-> ""]
    /\ probe = NoWrite

\* WriteVersion(path, version). os.WriteFile creates or truncates the file
\* and writes the content; when it fails the file is as it was, or is left
\* truncated. probe remembers the last version stored.
WriteVersionCall ==
    /\ pc = "ready"
    /\ \E version \in VersionArguments :
          \/ /\ file' = Stored(WriteVersionContent(version))
             /\ call' = [op |-> "write", version |-> version, err |-> ""]
             /\ probe' = [written |-> TRUE, version |-> version]
          \/ /\ file' \in {file, Stored(<<>>)}
             /\ call' = [op |-> "write", version |-> version, err |-> "writing file"]
             /\ probe' = IF file' = file THEN probe ELSE NoWrite
    /\ pc' = pc

\* ReadVersion(path)
ReadVersionCall ==
    /\ pc = "ready"
    /\ With(ReadVersion(file), LAMBDA r :
           call' = [op |-> "read", version |-> r.version, err |-> r.err])
    /\ UNCHANGED <<file, pc, probe>>

VersionFileNext == WriteVersionCall \/ ReadVersionCall

VersionFileSpec == VersionFileInit /\ [][VersionFileNext]_vars

\* s holds nothing but white space.
Blank(s) == \A i \in 1..Len(s) : s[i] \in WhiteSpace

\* s without the white space around it (s is not blank).
Trimmed(s) ==
    LET inked == {i \in 1..Len(s) : s[i] \notin WhiteSpace}
    IN  SubSeq(s, Smallest(inked), Largest(inked))

\* C18: for every version string that is not blank, WriteVersion stores it
\* with the surrounding white space trimmed, followed by exactly one
\* newline, and a following ReadVersion returns the trimmed string;
\* ReadVersion returns an error for a file that is empty or holds only
\* white space.
C18_VersionFileRoundTrip ==
    /\ call.op = "write" /\ call.err = "" /\ ~Blank(call.version) =>
          file = Stored(Trimmed(call.version) \o <<"\n">>)
    /\ call.op = "read" /\ probe.written /\ ~Blank(probe.version) =>
          call.err = "" /\ call.version = Trimmed(probe.version)
    /\ call.op = "read" /\ file.exists /\ Blank(file.data) => call.err # ""

\* A version given with white space around it was written and read back.
C18_Witness ==
    /\ call.op = "read"
    /\ probe = [written |-> TRUE, version |-> Chars("\n\t2.0.0\r\n")]
    /\ file = Stored(Chars("2.0.0\n"))
    /\ call.version = Chars("2.0.0")

----------------------------------------------------------------------------
(* ValidatePath, with the path functions of package filepath (Unix).       *)

Slash == <<"/">>

DotDot == Chars("..")

\* filepath.IsAbs
IsAbs(path) == HasPrefix(path, Slash)

\* The elements of a cleaned path: no empty element and no ".", and ".."
\* removes the element before it, is dropped at the root, and is kept at
\* the start of a relative path.
RECURSIVE CleanElements(_, _, _)
CleanElements(elems, kept, rooted) ==
    IF elems = <<>> THEN kept
    ELSE IF Head(elems) = <<>> \/ Head(elems) = Chars(".")
    THEN CleanElements(Tail(elems), kept, rooted)
    ELSE IF Head(elems) # DotDot
    THEN CleanElements(Tail(elems), Append(kept, Head(elems)), rooted)
    ELSE IF kept # <<>> /\ kept[Len(kept)] # DotDot
    THEN CleanElements(Tail(elems), SubSeq(kept, 1, Len(kept) - 1), rooted)
    ELSE IF rooted THEN CleanElements(Tail(elems), kept, rooted)
    ELSE CleanElements(Tail(elems), Append(kept, DotDot), rooted)

\* strings.Join(elems, "/")
RECURSIVE JoinElements(_)
JoinElements(elems) ==
    IF elems = <<>> THEN <<>>
    ELSE IF Len(elems) = 1 THEN elems[1]
    ELSE elems[1] \o Slash \o JoinElements(Tail(elems))

\* filepath.Clean
Clean(path) ==
    With(JoinElements(CleanElements(Split(path, "/"), <<>>, IsAbs(path))), LAMBDA joined :
        IF IsAbs(path) THEN Slash \o joined
        ELSE IF joined = <<>> THEN Chars(".")
        ELSE joined)

\* filepath.Join of two elements that are not empty.
Join(a, b) == Clean(a \o Slash \o b)

\* filepath.Abs; wd is what os.Getwd returns.
Abs(path, wd) ==
    IF IsAbs(path) THEN [err |-> "", path |-> Clean(path)]
    ELSE IF wd.err # "" THEN [err |-> wd.err, path |-> <<>>]
    ELSE [err |-> "", path |-> Join(wd.dir, path)]

\* absPath is in absBase, by a comparison that forgets the separator.
Within_NoSeparator(absPath, absBase) == HasPrefix(absPath, absBase) \/ absPath = absBase

\* absPath is absBase or has absBase and a separator before it.
Within(absPath, absBase) == HasPrefix(absPath, absBase \o Slash) \/ absPath = absBase

Rejected(text) == [err |-> text, path |-> <<>>]

\* The end of ValidatePath: the full path, made absolute and compared.
ResolveWithin(absBase, cleanPath, wd) ==
    With(Abs(IF IsAbs(cleanPath) THEN cleanPath ELSE Join(absBase, cleanPath), wd),
         LAMBDA abs :
        IF abs.err # "" THEN Rejected("resolving path")
        ELSE IF ~Within(abs.path, absBase) THEN Rejected("resolves outside allowed directory")
        ELSE [err |-> "", path |-> abs.path])

ValidatePath(basePath, userPath, wd) ==
    IF userPath = <<>> THEN Rejected("path cannot be empty")
    ELSE IF basePath = <<>> /\ wd.err # "" THEN Rejected("getting working directory")
    ELSE With(Abs(IF basePath = <<>> THEN wd.dir ELSE basePath, wd), LAMBDA absBase :
        IF absBase.err # "" THEN Rejected("resolving base path")
        ELSE With(Clean(userPath), LAMBDA cleanPath :
            IF HasPrefix(cleanPath, DotDot) \/ Contains(cleanPath, Chars("/../"))
            THEN Rejected("path traversal detected")
            ELSE ResolveWithin(absBase.path, cleanPath, wd)))

MaxElements == 3

PathElements == {Chars("a"), Chars("ab"), DotDot, Chars("."), <<>>, Chars("..a")}

RECURSIVE ElementLists(_)
ElementLists(n) ==
    IF n = 0 THEN {<<>>}
    ELSE ElementLists(n - 1)
         \cup {Append(l, e) : l \in {k \in ElementLists(n - 1) : Len(k) = n - 1},
                              e \in PathElements}

UserPaths ==
    {root \o JoinElements(l) : root \in {<<>>, Slash}, l \in ElementLists(MaxElements)}

BasePaths ==
    {<<>>, Chars("/a"), Chars("/a/"), Chars("/"), Chars("ab"), Chars("/a/ab"),
     Chars("/a/../ab")}

WorkingDirectories ==
    {[err |-> "", dir |-> Chars("/a")], [err |-> "getwd", dir |-> <<>>]}

ValidateInit ==
    /\ file = <<>>
    /\ pc = "ready"
    /\ call = NoCall
    /\ probe \in {[applied |-> FALSE, basePath |-> b, userPath |-> u, wd |-> w,
                   result |-> Rejected("")] :
                      b \in BasePaths, u \in UserPaths, w \in WorkingDirectories}

Validate ==
    /\ pc = "ready"
    /\ probe' = [probe EXCEPT !.applied = TRUE,
                              !.result = ValidatePath(probe.basePath, probe.userPath, probe.wd)]
    /\ pc' = "done"
    /\ UNCHANGED <<file, call>>

ValidateNext == Validate

ValidateSpec == ValidateInit /\ [][ValidateNext]_vars

\* The directory reached from a directory (a list of names below the root)
\* by following the elements of a path; the parent of the root is the root.
RECURSIVE Walk(_, _)
Walk(dir, elems) ==
    IF elems = <<>> THEN dir
    ELSE IF Head(elems) = <<>> \/ Head(elems) = Chars(".") THEN Walk(dir, Tail(elems))
    ELSE IF Head(elems) = DotDot
    THEN Walk(IF dir = <<>> THEN dir ELSE SubSeq(dir, 1, Len(dir) - 1), Tail(elems))
    ELSE Walk(Append(dir, Head(elems)), Tail(elems))

\* The location a path names when it is used in a directory.
Location(path, dir) == Walk(IF IsAbs(path) THEN <<>> ELSE dir, Split(path, "/"))

\* loc is the directory base or below it.
Beneath(loc, base) == Len(base) <= Len(loc) /\ SubSeq(loc, 1, Len(base)) = base

\* The location of the base directory of the call.
BaseLocation ==
    IF probe.basePath = <<>> THEN Location(probe.wd.dir, <<>>)
    ELSE Location(probe.basePath, Location(probe.wd.dir, <<>>))

\* C19: every path that ValidatePath accepts resolves to the base directory
\* or to a location beneath it (and the path returned names that location);
\* the empty path, every path whose cleaned form starts with "..", and
\* every absolute path outside the base are rejected.
C19_NoTraversalOutsideBase ==
    probe.applied =>
        /\ probe.result.err = "" =>
              /\ Beneath(Location(probe.userPath, BaseLocation), BaseLocation)
              /\ Location(probe.result.path, <<>>) = Location(probe.userPath, BaseLocation)
        /\ probe.userPath = <<>> => probe.result.err # ""
        /\ HasPrefix(Clean(probe.userPath), DotDot) => probe.result.err # ""
        /\ (IsAbs(probe.userPath)
            /\ ~Beneath(Location(probe.userPath, <<>>), BaseLocation)) =>
              probe.result.err # ""

\* A path that leaves a directory of the base and comes back is accepted.
C19_Witness ==
    /\ probe.applied
    /\ probe.basePath = Chars("/a/")
    /\ probe.userPath = Chars("ab/../a")
    /\ probe.result = [err |-> "", path |-> Chars("/a/a")]

----------------------------------------------------------------------------
(* helm-docs: the allowlist of its flags, validateHelmDocsArgs, and        *)
(* runHelmDocs with the subprocess it launches.                            *)

allowedHelmDocsFlags ==
    {Chars("--chart-search-root"), Chars("--template-files"), Chars("--badge-style"),
     Chars("--document-dependency-values"), Chars("--dry-run"), Chars("--ignore-file"),
     Chars("--log-level"), Chars("--output-file"), Chars("--sort-values-order"),
     Chars("--values-file"), Chars("-c"), Chars("-d"), Chars("-g"), Chars("-i"),
     Chars("-l"), Chars("-o"), Chars("-s"), Chars("-t"), Chars("-u"), Chars("-f")}

\* strings.Fields: the maximal runs of characters that are not white space.
RECURSIVE Fields(_)
Fields(s) ==
    IF s = <<>> THEN <<>>
    ELSE IF Head(s) \in WhiteSpace THEN Fields(Tail(s))
    ELSE With(RunNot(s, 1, WhiteSpace), LAMBDA n :
             <<SubSeq(s, 1, n)>> \o Fields(SubSeq(s, n + 1, Len(s))))

\* The flag of an argument, were the form --flag=value not handled.
FlagOf_WholeArgument(arg) == arg

\* The flag of an argument: what is before its "=", when it has one that is
\* not its first character.
FlagOf(arg) ==
    IF Index(arg, <<"=">>) > 1 THEN SubSeq(arg, 1, Index(arg, <<"=">>) - 1) ELSE arg

\* validateHelmDocsArgs over the arguments that remain: the first flag that
\* is not allowed is the error.
RECURSIVE ValidateArgs(_)
ValidateArgs(args) ==
    IF args = <<>> THEN [err |-> "", flag |-> <<>>]
    ELSE IF ~HasPrefix(FlagOf(Head(args)), <<"-">>) THEN ValidateArgs(Tail(args))
    ELSE IF FlagOf(Head(args)) \notin allowedHelmDocsFlags
    THEN [err |-> "helm-docs flag is not allowed", flag |-> FlagOf(Head(args))]
    ELSE ValidateArgs(Tail(args))

validateHelmDocsArgs(argsStr) == ValidateArgs(Fields(argsStr))

MaxArgs == 2

FlagNames ==
    {Chars("--chart-search-root"), Chars("-c"), Chars("--execute-script"), Chars("-C"),
     Chars("-"), Chars("./charts"), <<>>}

FlagValues == {Chars("v"), Chars("-x"), Chars("a=b")}

\* An argument: a name alone, or a name, "=" and a value.
Arguments ==
    {[name |-> n, eq |-> FALSE, value |-> <<>>] : n \in FlagNames \ {<<>>}}
    \cup {[name |-> n, eq |-> TRUE, value |-> v] : n \in FlagNames, v \in FlagValues}

ArgumentText(a) == IF a.eq THEN a.name \o <<"=">> \o a.value ELSE a.name

RECURSIVE ArgumentLists(_)
ArgumentLists(n) ==
    IF n = 0 THEN {<<>>}
    ELSE ArgumentLists(n - 1)
         \cup {Append(l, a) : l \in {k \in ArgumentLists(n - 1) : Len(k) = n - 1},
                              a \in Arguments}

Separators == {Chars(" "), Chars(" \t ")}

\* The arguments as one string, with white space between them.
RECURSIVE ArgsText(_, _)
ArgsText(as, sep) ==
    IF as = <<>> THEN <<>>
    ELSE IF Len(as) = 1 THEN ArgumentText(as[1])
    ELSE ArgumentText(as[1]) \o sep \o ArgsText(Tail(as), sep)

NoRun == [validation |-> "", launched |-> FALSE, command |-> <<>>, err |-> "", files |-> <<>>]

HelmDocsInit ==
    /\ file = <<>>
    /\ pc = "validate"
    /\ call = NoRun
    /\ probe \in {[applied |-> FALSE, arguments |-> as, argsStr |-> ArgsText(as, sep)] :
                      as \in ArgumentLists(MaxArgs), sep \in Separators}

\* runHelmDocs, first part: the arguments are validated.
ValidateHelmDocs ==
    /\ pc = "validate"
    /\ With(validateHelmDocsArgs(probe.argsStr), LAMBDA v :
           /\ call' = [call EXCEPT !.validation = v.err,
                                   !.err = IF v.err = "" THEN ""
                                           ELSE "invalid helm-docs arguments"]
           /\ pc' = IF v.err = "" THEN "exec" ELSE "done")
    /\ probe' = [probe EXCEPT !.applied = TRUE]
    /\ UNCHANGED file

\* runHelmDocs, second part: helm-docs is launched with the fields of the
\* argument string, and succeeds or fails.
LaunchHelmDocs ==
    /\ pc = "exec"
    /\ \E err \in StepErrors :
          /\ call' = [call EXCEPT !.launched = TRUE,
                                  !.command = <<Chars("helm-docs")>> \o Fields(probe.argsStr),
                                  !.err = IF err = "nil" THEN "" ELSE err]
          /\ pc' = IF err = "nil" THEN "git" ELSE "done"
    /\ UNCHANGED <<file, probe>>

\* runHelmDocs, last part: the files git reports as modified.
GitModifiedFiles ==
    /\ pc = "git"
    /\ \E fs \in {<<>>, <<Chars("README.md")>>} : call' = [call EXCEPT !.files = fs]
    /\ pc' = "done"
    /\ UNCHANGED <<file, probe>>

HelmDocsNext == ValidateHelmDocs \/ LaunchHelmDocs \/ GitModifiedFiles

HelmDocsSpec == HelmDocsInit /\ [][HelmDocsNext]_vars

\* An argument that starts with "-" and whose flag name, the text before
\* its first "=", is not in the allowlist.
Offending(a) ==
    /\ HasPrefix(ArgumentText(a), <<"-">>)
    /\ a.name \notin allowedHelmDocsFlags

SomeOffending == \E i \in 1..Len(probe.arguments) : Offending(probe.arguments[i])

\* C20: validateHelmDocsArgs returns an error exactly when some argument
\* that starts with "-" has a flag name outside the allowlist, and
\* runHelmDocs never launches helm-docs for an argument string that fails
\* the validation.
C20_AllowlistBeforeLaunch ==
    /\ probe.applied => (call.validation # "" <=> SomeOffending)
    /\ call.launched => ~SomeOffending /\ call.validation = ""
    /\ Done /\ SomeOffending => ~call.launched /\ call.err # ""

\* An allowed flag is followed by a flag that is not allowed: nothing is
\* launched.
C20_Witness ==
    /\ Done
    /\ probe.argsStr = Chars("--chart-search-root=v --execute-script=v")
    /\ call.validation # ""
    /\ ~call.launched

----------------------------------------------------------------------------
(* Package github: PRRequest and its Validate.                             *)

PRRequest(owner, repo, base, head, title, body, files) ==
    [Owner |-> owner, Repo |-> repo, BaseBranch |-> base, HeadBranch |-> head,
     Title |-> title, Body |-> body, Files |-> files]

\* PRRequest.Validate that takes a request without a title.
PRRequestValidate_TitleOptional(r) ==
    IF r.Owner = <<>> THEN "owner is required"
    ELSE IF r.Repo = <<>> THEN "repo is required"
    ELSE IF r.BaseBranch = <<>> THEN "base branch is required"
    ELSE IF r.HeadBranch = <<>> THEN "head branch is required"
    ELSE IF Len(r.Files) = 0 THEN "at least one file is required"
    ELSE ""

\* PRRequest.Validate: the error, "" for nil.
PRRequestValidate(r) ==
    IF r.Owner = <<>> THEN "owner is required"
    ELSE IF r.Repo = <<>> THEN "repo is required"
    ELSE IF r.BaseBranch = <<>> THEN "base branch is required"
    ELSE IF r.HeadBranch = <<>> THEN "head branch is required"
    ELSE IF r.Title = <<>> THEN "title is required"
    ELSE IF Len(r.Files) = 0 THEN "at least one file is required"
    ELSE ""

FileLists == {<<>>, <<Chars("VERSION")>>, <<Chars("VERSION"), Chars("Chart.yaml")>>}

PRRequests ==
    {PRRequest(o, r, b, h, t, y, fs) :
        o \in {<<>>, Chars("owner")}, r \in {<<>>, Chars("repo")},
        b \in {<<>>, Chars("main")}, h \in {<<>>, Chars("release/v1.0.0")},
        t \in {<<>>, Chars("Release v1.0.0")}, y \in {<<>>, Chars("Release body")},
        fs \in FileLists}

RequestInit ==
    /\ file = <<>>
    /\ pc = "ready"
    /\ call = NoCall
    /\ probe \in {[applied |-> FALSE, request |-> r, result |-> ""] : r \in PRRequests}

ValidateRequest ==
    /\ pc = "ready"
    /\ probe' = [probe EXCEPT !.applied = TRUE, !.result = PRRequestValidate(probe.request)]
    /\ pc' = "done"
    /\ UNCHANGED <<file, call>>

RequestNext == ValidateRequest

RequestSpec == RequestInit /\ [][RequestNext]_vars

\* The required fields in the order of their checks: whether each is
\* missing from the request, and the error for it.
RequiredFields ==
    << [missing |-> probe.request.Owner = <<>>,      err |-> "owner is required"],
       [missing |-> probe.request.Repo = <<>>,       err |-> "repo is required"],
       [missing |-> probe.request.BaseBranch = <<>>, err |-> "base branch is required"],
       [missing |-> probe.request.HeadBranch = <<>>, err |-> "head branch is required"],
       [missing |-> probe.request.Title = <<>>,      err |-> "title is required"],
       [missing |-> probe.request.Files = <<>>,      err |-> "at least one file is required"] >>

\* C21: PRRequest.Validate returns nil exactly when Owner, Repo, BaseBranch,
\* HeadBranch and Title are not empty and Files has an entry, whatever Body
\* is; otherwise it returns the error of the first missing field in the
\* order owner, repo, base branch, head branch, title, files.
C21_FirstMissingField ==
    probe.applied =>
        /\ probe.result = "" <=> \A i \in 1..6 : ~RequiredFields[i].missing
        /\ \A i \in 1..6 :
              (RequiredFields[i].missing /\ \A j \in 1..(i - 1) : ~RequiredFields[j].missing)
                  => probe.result = RequiredFields[i].err

\* A request without title and without files: the title is reported.
C21_Witness ==
    /\ probe.applied
    /\ probe.request = PRRequest(Chars("owner"), Chars("repo"), Chars("main"),
                                 Chars("release/v1.0.0"), <<>>, <<>>, <<>>)
    /\ probe.result = "title is required"

----------------------------------------------------------------------------
(* Claims about the rewriting of the addressed occurrence.                 *)

\* The new value the call intends for a value: the value with the first
\* prefix+currentVersion replaced by prefix+newVersion when it holds one,
\* prefix+newVersion otherwise.
IntendedValue(v) ==
    IF Contains(v, OldVersionStr)
    THEN ReplaceFirst(v, OldVersionStr, NewVersionStr)
    ELSE NewVersionStr

\* C22: after UpdateYAMLFile returned success, the value read at cfg.Path
\* from the written file is the intended new value: the occurrence that was
\* rewritten is the one the path addresses (here: for a value that holds
\* prefix+currentVersion and no "$", and a new version that differs from
\* the current one).
C22_AddressedOccurrenceRewritten ==
    (/\ Succeeded /\ Addressed # 0
     /\ call.newVersion # call.currentVersion
     /\ Contains(ValueBefore, OldVersionStr)
     /\ ~Contains(ValueBefore, <<"$">>))
        => /\ AddressedAfter # 0
           /\ ValueAfter = IntendedValue(ValueBefore)

----------------------------------------------------------------------------
(* surgicalReplace as a pure function: it is applied to files built from   *)
(* lines of known styles.                                                  *)

MaxLines == 2

\* The styles of a line that holds a key and a value: the value in double
\* quotes, in single quotes, plain at the end of the line, plain before a
\* comment, plain before other text.
LineStyles == {"dq", "sq", "eol", "comment", "text"}

\* The text of a line of a style for a key and a value.
StyledLine(style, key, value) ==
    key \o Chars(": ")
    \o (CASE style = "dq"      -> <<"\"">> \o value \o <<"\"">>
          [] style = "sq"      -> <<"'">> \o value \o <<"'">>
          [] style = "eol"     -> value
          [] style = "comment" -> value \o Chars("  # c")
          [] style = "text"    -> value \o Chars("-rc"))
    \o <<"\n">>

\* The lines of the files: the key tag with the old value in each style, and
\* lines with another key or another value.
StyledLines ==
    {[style |-> st, key |-> Chars("tag"), value |-> Chars("1.0.0")] : st \in LineStyles}
    \cup {[style |-> st, key |-> Chars("app"), value |-> Chars("1.0.0")] : st \in {"dq", "eol"}}
    \cup {[style |-> st, key |-> Chars("tag"), value |-> Chars("3.0.0")] : st \in {"sq", "eol"}}

RECURSIVE LineLists(_)
LineLists(n) ==
    IF n = 0 THEN {<<>>}
    ELSE LineLists(n - 1)
         \cup {Append(l, e) : l \in {k \in LineLists(n - 1) : Len(k) = n - 1},
                              e \in StyledLines}

RECURSIVE LinesText(_)
LinesText(ls) ==
    IF ls = <<>> THEN <<>>
    ELSE StyledLine(ls[1].style, ls[1].key, ls[1].value) \o LinesText(Tail(ls))

SurgicalInit ==
    /\ file = <<>>
    /\ pc = "ready"
    /\ call = NoCall
    /\ probe \in {[applied |-> FALSE, lines |-> ls, data |-> LinesText(ls),
                   key |-> Chars("tag"), oldValue |-> Chars("1.0.0"), newValue |-> new,
                   result |-> [err |-> FALSE, data |-> <<>>, rule |-> 0]] :
                      ls \in LineLists(MaxLines),
                      new \in {Chars("2.0.0"), Chars("next"), Chars("${R}/app:v2.0.0")}}

Surgical ==
    /\ pc = "ready"
    /\ probe' = [probe EXCEPT !.applied = TRUE,
                    !.result = surgicalReplace(probe.data, probe.key, probe.oldValue,
                                               probe.newValue)]
    /\ pc' = "done"
    /\ UNCHANGED <<file, call>>

SurgicalNext == Surgical

SurgicalSpec == SurgicalInit /\ [][SurgicalNext]_vars

\* The rules (5: the fallback) whose pattern for the key and the old value
\* matches a line.
RulesOfLine(l) ==
    IF l.key # probe.key \/ l.value # probe.oldValue THEN {}
    ELSE CASE l.style = "dq"      -> {1}
           [] l.style = "sq"      -> {2}
           [] l.style = "eol"     -> {3, 5}
           [] l.style = "comment" -> {4, 5}
           [] l.style = "text"    -> {5}

RulesOfFile == UNION {RulesOfLine(probe.lines[i]) : i \in 1..Len(probe.lines)}

\* The file after rule n was applied, and no other.
RECURSIVE AfterRule(_, _)
AfterRule(ls, n) ==
    IF ls = <<>> THEN <<>>
    ELSE StyledLine(ls[1].style, ls[1].key,
                    IF n \in RulesOfLine(ls[1]) THEN probe.newValue ELSE ls[1].value)
         \o AfterRule(Tail(ls), n)

\* C23: surgicalReplace applies exactly one rule, the first of double-quoted,
\* single-quoted, unquoted at the end of the line, unquoted before a comment
\* whose pattern matches the file, and no later rule; when none matches it
\* applies the fallback; when the fallback does not match either it returns
\* an error and no content. (That the lines of the rule, and no others, are
\* rewritten is read from the output for a new value without "$".)
C23_FirstMatchingRuleOnly ==
    probe.applied =>
        IF RulesOfFile = {}
        THEN probe.result.err /\ probe.result.data = <<>>
        ELSE /\ ~probe.result.err
             /\ probe.result.rule = Smallest(RulesOfFile)
             /\ ~Contains(probe.newValue, <<"$">>) =>
                    probe.result.data = AfterRule(probe.lines, Smallest(RulesOfFile))

\* The file holds the value in single quotes and, before it, plain: only
\* the single-quoted line is rewritten.
C23_Witness ==
    /\ probe.applied
    /\ probe.data = Chars("tag: 1.0.0\ntag: '1.0.0'\n")
    /\ probe.newValue = Chars("2.0.0")
    /\ probe.result.rule = 2
    /\ probe.result.data = Chars("tag: 1.0.0\ntag: '2.0.0'\n")

\* C24: surgicalReplace inserts newValue literally: in the output, what
\* stands in place of oldValue on the rewritten lines is exactly newValue,
\* for every newValue, also one that contains "$" or starts with a digit.
C24_NewValueLiteral ==
    probe.applied /\ ~probe.result.err =>
        probe.result.data = AfterRule(probe.lines, probe.result.rule)

----------------------------------------------------------------------------
(* run: bumpVersion, updateAllFiles on the files of the repository (with   *)
(* the default reader, writer and updater), the release pull request, the  *)
(* outputs. file holds the VERSION file and the YAML targets.              *)

MaxRunTargets == 2

\* A YAML target: its content in the repository and its configuration.
RunTargets ==
    {[data |-> Chars("version: 1.2.3\n"),
      cfg |-> [file |-> Chars("Chart.yaml"), path |-> Chars("version"), prefix |-> <<>>]],
     [data |-> Chars("tag: v1.2.3\n"),
      cfg |-> [file |-> Chars("values.yaml"), path |-> Chars("tag"), prefix |-> Chars("v")]],
     [data |-> Chars("version: 0.9.0\n"),
      cfg |-> [file |-> Chars("old.yaml"), path |-> Chars("version"), prefix |-> <<>>]]}

RECURSIVE RunTargetLists(_)
RunTargetLists(n) ==
    IF n = 0 THEN {<<>>}
    ELSE RunTargetLists(n - 1)
         \cup {Append(l, t) : l \in {k \in RunTargetLists(n - 1) : Len(k) = n - 1},
                              t \in RunTargets}

RunVersionFiles == {Stored(Chars("1.2.3\n")), Stored(Chars("v1.2.3\n")), Stored(<<>>)}

RunBumpTypes == {Chars("patch"), Chars("major"), <<>>}

NoPR == [Number |-> 0, URL |-> <<>>]

RunInit ==
    /\ pc = "bump"
    /\ probe = NoProbe
    /\ \E ts \in RunTargetLists(MaxRunTargets), vf \in RunVersionFiles,
          b \in RunBumpTypes, h \in HelmDocsArgsValues :
          /\ file = [VERSION |-> vf, targets |-> [i \in 1..Len(ts) |-> ts[i].data]]
          /\ call = [cfg |-> [VersionFile |-> Chars("VERSION"), BumpType |-> b,
                              VersionFiles |-> [i \in 1..Len(ts) |-> ts[i].cfg],
                              HelmDocsArgs |-> h],
                     currentVersion |-> <<>>, newVersion |-> <<>>, next |-> 1,
                     attempted |-> <<>>, failed |-> <<>>,
                     result |-> [HelmDocsFiles |-> <<>>, Errors |-> <<>>],
                     creatorCalls |-> 0, pr |-> NoPR, outputs |-> <<>>,
                     returned |-> FALSE, err |-> ""]

\* run returns err.
Return(err) == [call EXCEPT !.returned = TRUE, !.err = err]

\* run, first part: bumpVersion with the default reader.
RunBumpVersion ==
    /\ pc = "bump"
    /\ With(bumpVersion(call.cfg, ReadVersion(file.VERSION)), LAMBDA b :
           IF b.err # ""
           THEN call' = Return(b.err) /\ pc' = "done"
           ELSE /\ call' = [call EXCEPT !.currentVersion = b.currentVersion,
                                        !.newVersion = String(b.newVersion)]
                /\ pc' = "version")
    /\ UNCHANGED <<file, probe>>

\* updateAllFiles, the VERSION file: WriteVersion stores the new version,
\* or fails and leaves the file as it was or truncated.
RunWriteVersion ==
    /\ pc = "version"
    /\ \/ /\ file' = [file EXCEPT !.VERSION = Stored(WriteVersionContent(call.newVersion))]
          /\ call' = AfterStep(Step("writing version file", 0), "nil")
       \/ /\ file' \in {file, [file EXCEPT !.VERSION = Stored(<<>>)]}
          /\ call' = AfterStep(Step("writing version file", 0), "failed")
    /\ pc' = "yaml"
    /\ UNCHANGED probe

\* A step for the next YAML target that puts the VERSION file back when the
\* target fails.
RunUpdateYAML_RestoreVersion ==
    /\ pc = "yaml"
    /\ IF call.next > Len(call.cfg.VersionFiles)
       THEN pc' = "helm" /\ UNCHANGED <<file, call>>
       ELSE With(UpdateYAMLFile(file.targets[call.next], call.cfg.VersionFiles[call.next],
                                call.currentVersion, call.newVersion),
                 LAMBDA u :
                /\ file' = [file EXCEPT !.targets[call.next] = u.data,
                                        !.VERSION = IF u.err = "" THEN @
                                                    ELSE Stored(call.currentVersion \o <<"\n">>)]
                /\ call' = [AfterStep(Step("updating", call.next),
                                      IF u.err = "" THEN "nil" ELSE u.err)
                                EXCEPT !.next = @ + 1]
                /\ pc' = "yaml")
    /\ UNCHANGED probe

\* updateAllFiles, the next YAML target: UpdateYAMLFile on its content with
\* the current and the new version.
RunUpdateYAML ==
    /\ pc = "yaml"
    /\ IF call.next > Len(call.cfg.VersionFiles)
       THEN pc' = "helm" /\ UNCHANGED <<file, call>>
       ELSE With(UpdateYAMLFile(file.targets[call.next], call.cfg.VersionFiles[call.next],
                                call.currentVersion, call.newVersion),
                 LAMBDA u :
                /\ file' = [file EXCEPT !.targets[call.next] = u.data]
                /\ call' = [AfterStep(Step("updating", call.next),
                                      IF u.err = "" THEN "nil" ELSE u.err)
                                EXCEPT !.next = @ + 1]
                /\ pc' = "yaml")
    /\ UNCHANGED probe

\* updateAllFiles, helm-docs, and its return to run.
RunHelmDocs ==
    /\ pc = "helm"
    /\ IF call.cfg.HelmDocsArgs = <<>>
       THEN call' = call
       ELSE \E err \in StepErrors :
                call' = [AfterStep(Step("running helm-docs", 0), err) EXCEPT
                             !.result.HelmDocsFiles =
                                 IF err = "nil" THEN <<Chars("README.md")>> ELSE @]
    /\ pc' = "check"
    /\ UNCHANGED <<file, probe>>

\* run going on to the pull request whatever updateAllFiles reported.
RunCheckResult_Ignored ==
    /\ pc = "check"
    /\ call' = call /\ pc' = "pr"
    /\ UNCHANGED <<file, probe>>

\* run looks at the result of updateAllFiles.
RunCheckResult ==
    /\ pc = "check"
    /\ IF HasErrors(call.result)
       THEN call' = Return("updating files") /\ pc' = "done"
       ELSE call' = call /\ pc' = "pr"
    /\ UNCHANGED <<file, probe>>

\* createReleasePR: the PR creator is called, and succeeds or fails.
RunCreateReleasePR ==
    /\ pc = "pr"
    /\ \/ /\ call' = [call EXCEPT !.creatorCalls = @ + 1,
                                  !.pr = [Number |-> 1, URL |-> Chars("https://pr/1")]]
          /\ pc' = "outputs"
       \/ /\ call' = [Return("creating PR") EXCEPT !.creatorCalls = @ + 1]
          /\ pc' = "done"
    /\ UNCHANGED <<file, probe>>

\* run sets the outputs and returns nil.
RunSetOutputs ==
    /\ pc = "outputs"
    /\ call' = [Return("") EXCEPT
                   !.outputs = << <<"version", call.newVersion>>,
                                  <<"pr_number", FormatInt(call.pr.Number)>>,
                                  <<"pr_url", call.pr.URL>> >>]
    /\ pc' = "done"
    /\ UNCHANGED <<file, probe>>

RunNext ==
    \/ RunBumpVersion \/ RunWriteVersion \/ RunUpdateYAML \/ RunHelmDocs
    \/ RunCheckResult \/ RunCreateReleasePR \/ RunSetOutputs

RunSpec == RunInit /\ [][RunNext]_vars

\* C25: run creates the release pull request only if updateAllFiles reported
\* no error: when the VERSION write, a YAML target or helm-docs failed, run
\* returns the error of the update without a call of the PR creator, and
\* the outputs version, pr_number and pr_url are set only after the PR
\* creator returned success.
C25_PullRequestOnlyAfterCleanUpdate ==
    /\ call.creatorCalls > 0 => call.failed = <<>> /\ pc \in {"outputs", "done"}
    /\ call.returned /\ call.failed # <<>> =>
          call.err = "updating files" /\ call.creatorCalls = 0 /\ call.outputs = <<>>
    /\ call.outputs # <<>> =>
          /\ call.creatorCalls = 1 /\ call.pr # NoPR /\ call.err = ""
          /\ {call.outputs[i][1] : i \in 1..Len(call.outputs)}
                 = {"version", "pr_number", "pr_url"}

\* helm-docs failed after the files were written: run returned the error
\* and the PR creator was not called.
C25_Witness ==
    /\ call.returned
    /\ call.failed = <<Step("running helm-docs", 0)>>
    /\ Len(call.cfg.VersionFiles) = 1
    /\ call.err = "updating files"
    /\ call.creatorCalls = 0

\* The content a target of the configuration had before the run.
InitialData(cfg) == (CHOOSE t \in RunTargets : t.cfg = cfg).data

\* Target i was attempted and did not fail.
TargetSucceeded(i) ==
    /\ \E k \in 1..Len(call.attempted) : call.attempted[k] = Step("updating", i)
    /\ \A k \in 1..Len(call.failed) : call.failed[k] # Step("updating", i)

VersionWritten ==
    /\ call.attempted # <<>>
    /\ \A k \in 1..Len(call.failed) : call.failed[k] # Step("writing version file", 0)

\* C27: updateAllFiles writes the VERSION file before it attempts a YAML
\* target and never restores it: when a YAML target or helm-docs fails
\* afterwards, run returns an error while the VERSION file holds the new
\* version and the YAML targets that succeeded stay rewritten.
C27_NoRollbackAcrossFiles ==
    /\ call.attempted # <<>> => call.attempted[1] = Step("writing version file", 0)
    /\ VersionWritten => file.VERSION = Stored(call.newVersion \o <<"\n">>)
    /\ \A i \in 1..Len(call.cfg.VersionFiles) :
          TargetSucceeded(i) =>
              /\ file.targets[i] # InitialData(call.cfg.VersionFiles[i])
              /\ Contains(file.targets[i],
                          call.cfg.VersionFiles[i].prefix \o call.newVersion)
    /\ call.returned /\ call.failed # <<>> => call.err # ""

\* The second of two targets failed: run returned an error, the VERSION file
\* and the first target hold the new version.
C27_Witness ==
    /\ call.returned /\ call.err = "updating files"
    /\ call.failed = <<Step("updating", 2)>>
    /\ file.VERSION = Stored(Chars("1.2.4\n"))
    /\ file.targets = <<Chars("version: 1.2.4\n"), Chars("version: 0.9.0\n")>>

\* The version X.Y.Z of a version text.
Bare(text) == String(VersionParse(text).v)

\* C30: a VERSION file with a leading v releases like one without: the
\* current version that bumpVersion returns and updateAllFiles passes to the
\* YAML updaters is in the bare form of the new version, so the old string
\* expected in a target is the prefix of the target followed by X.Y.Z.
C30_CurrentVersionBare ==
    pc \notin {"bump"} /\ call.currentVersion # <<>> =>
        /\ call.currentVersion = Bare(call.currentVersion)
        /\ \A i \in 1..Len(call.cfg.VersionFiles) :
              call.cfg.VersionFiles[i].prefix \o call.currentVersion
                  = call.cfg.VersionFiles[i].prefix \o Bare(call.currentVersion)

----------------------------------------------------------------------------
(* Client.CreateReleasePR: the calls of the GitHub API it makes, each of   *)
(* which succeeds or fails. call.log holds the steps made, in order.       *)

ClientRequests ==
    {PRRequest(o, Chars("repo"), b, Chars("release/v1.0.0"),
               Chars("Release v1.0.0"), <<>>, fs) :
        o \in {<<>>, Chars("owner")}, b \in {<<>>, Chars("main"), Chars("dev")},
        fs \in FileLists}

NoResult == [Number |-> 0, URL |-> <<>>]

ClientInit ==
    /\ file = <<>>
    /\ pc = "validate"
    /\ probe = NoProbe
    /\ call \in {[req |-> r, log |-> <<>>, next |-> 1, content |-> "", exists |-> FALSE,
                  pr |-> NoResult, result |-> NoResult, returned |-> FALSE, err |-> ""] :
                     r \in ClientRequests}

\* The call with a step added to its log.
Logged(step, target, ok) ==
    [call EXCEPT !.log = Append(@, [step |-> step, file |-> target, ok |-> ok])]

\* CreateReleasePR returns nil and an error.
Abort(c, err) == [c EXCEPT !.returned = TRUE, !.err = err]

\* req.Validate()
ClientValidate ==
    /\ pc = "validate"
    /\ IF PRRequestValidate(call.req) # ""
       THEN call' = Abort(Logged("validate", 0, FALSE), "invalid PR request") /\ pc' = "done"
       ELSE call' = Logged("validate", 0, TRUE) /\ pc' = "getref"
    /\ UNCHANGED <<file, probe>>

\* Git.GetRef of the base branch
ClientGetRef ==
    /\ pc = "getref"
    /\ \/ call' = Logged("get base ref", 0, TRUE) /\ pc' = "createref"
       \/ call' = Abort(Logged("get base ref", 0, FALSE), "getting base branch ref")
          /\ pc' = "done"
    /\ UNCHANGED <<file, probe>>

\* Git.CreateRef of the head branch
ClientCreateRef ==
    /\ pc = "createref"
    /\ \/ call' = Logged("create branch", 0, TRUE) /\ pc' = "files"
       \/ call' = Abort(Logged("create branch", 0, FALSE), "creating branch") /\ pc' = "done"
    /\ UNCHANGED <<file, probe>>

\* The loop over req.Files, and commitFile up to the read of the file.
ClientReadFile ==
    /\ pc = "files"
    /\ IF call.next > Len(call.req.Files)
       THEN call' = call /\ pc' = "pr"
       ELSE \/ call' = [call EXCEPT !.content = "read"] /\ pc' = "contents"
            \/ call' = Abort(Logged("commit", call.next, FALSE), "committing file")
               /\ pc' = "done"
    /\ UNCHANGED <<file, probe>>

\* commitFile: Repositories.GetContents tells whether the file exists on
\* the branch; an error counts as a file that does not exist.
ClientGetContents ==
    /\ pc = "contents"
    /\ \E exists \in BOOLEAN : call' = [call EXCEPT !.exists = exists]
    /\ pc' = "put"
    /\ UNCHANGED <<file, probe>>

\* A commitFile whose failure is passed over.
ClientPutFile_FailureIgnored ==
    /\ pc = "put"
    /\ \E ok \in BOOLEAN :
          call' = [Logged("commit", call.next, ok) EXCEPT !.next = @ + 1]
    /\ pc' = "files"
    /\ UNCHANGED <<file, probe>>

\* commitFile: Repositories.UpdateFile or CreateFile, and the return to the
\* loop.
ClientPutFile ==
    /\ pc = "put"
    /\ \/ call' = [Logged("commit", call.next, TRUE) EXCEPT !.next = @ + 1] /\ pc' = "files"
       \/ call' = Abort(Logged("commit", call.next, FALSE), "committing file")
          /\ pc' = "done"
    /\ UNCHANGED <<file, probe>>

\* PullRequests.Create
ClientCreatePullRequest ==
    /\ pc = "pr"
    /\ \/ call' = [Logged("open pull request", 0, TRUE) EXCEPT
                      !.pr = [Number |-> 1, URL |-> Chars("https://pr/1")]]
          /\ pc' = "label"
       \/ call' = Abort(Logged("open pull request", 0, FALSE), "creating pull request")
          /\ pc' = "done"
    /\ UNCHANGED <<file, probe>>

\* Issues.AddLabelsToIssue, whose error is dropped, and the return.
ClientAddLabel ==
    /\ pc = "label"
    /\ \E ok \in BOOLEAN :
          call' = [Logged("add label", 0, ok) EXCEPT
                      !.returned = TRUE, !.err = "", !.result = call.pr]
    /\ pc' = "done"
    /\ UNCHANGED <<file, probe>>

ClientNext ==
    \/ ClientValidate \/ ClientGetRef \/ ClientCreateRef \/ ClientReadFile
    \/ ClientGetContents \/ ClientPutFile \/ ClientCreatePullRequest \/ ClientAddLabel

ClientSpec == ClientInit /\ [][ClientNext]_vars

\* The steps of a complete call for the request, in their order.
StepsInOrder ==
    << [step |-> "validate", file |-> 0], [step |-> "get base ref", file |-> 0],
       [step |-> "create branch", file |-> 0] >>
    \o [i \in 1..Len(call.req.Files) |-> [step |-> "commit", file |-> i]]
    \o << [step |-> "open pull request", file |-> 0], [step |-> "add label", file |-> 0] >>

\* C26: CreateReleasePR makes its steps in the order validate, read the
\* base ref, create the branch, commit each file in the order of the
\* request, open the pull request, add the label; the first failure of a
\* step before the label ends the call with an error and no later step is
\* made (no pull request is opened unless every file was committed); a
\* failure to add the label changes nothing in the number and URL returned.
C26_StepsInOrderFirstFailureAborts ==
    /\ Len(call.log) <= Len(StepsInOrder)
    /\ \A k \in 1..Len(call.log) :
          /\ call.log[k].step = StepsInOrder[k].step
          /\ call.log[k].file = StepsInOrder[k].file
          /\ (~call.log[k].ok /\ call.log[k].step # "add label") =>
                k = Len(call.log) /\ call.returned /\ call.err # ""
                /\ call.result = NoResult
    /\ (\E k \in 1..Len(call.log) : call.log[k].step = "open pull request") =>
          \A i \in 1..Len(call.req.Files) :
              \E k \in 1..Len(call.log) :
                  call.log[k] = [step |-> "commit", file |-> i, ok |-> TRUE]
    /\ (\E k \in 1..Len(call.log) : call.log[k].step = "add label") =>
          call.returned /\ call.err = "" /\ call.result = call.pr /\ call.pr # NoResult

\* Two files were committed, the pull request was opened and the label
\* could not be added: the number and the URL are returned.
C26_Witness ==
    /\ call.returned /\ call.err = ""
    /\ Len(call.req.Files) = 2
    /\ call.log[Len(call.log)] = [step |-> "add label", file |-> 0, ok |-> FALSE]
    /\ call.result = [Number |-> 1, URL |-> Chars("https://pr/1")]

----------------------------------------------------------------------------
(* Two successive calls of UpdateYAMLFile with the same arguments on the   *)
(* same file. call holds the first call, probe the second.                 *)

TwiceInit ==
    /\ file \in Files
    /\ pc = "ready"
    /\ call = NoCall
    /\ probe = [applied |-> FALSE, before |-> <<>>, result |-> NoCall.result]

FirstUpdate ==
    /\ pc = "ready"
    /\ \E path \in Paths, prefix \in Prefixes,
          currentVersion \in Versions, newVersion \in Versions :
          With([file |-> FileName, path |-> path, prefix |-> prefix], LAMBDA cfg :
          With(UpdateYAMLFile(file, cfg, currentVersion, newVersion),
               LAMBDA result :
              /\ file' = result.data
              /\ call' = [cfg |-> cfg, currentVersion |-> currentVersion,
                          newVersion |-> newVersion, before |-> file,
                          result |-> result]))
    /\ pc' = "once"
    /\ UNCHANGED probe

SecondUpdate ==
    /\ pc = "once"
    /\ With(UpdateYAMLFile(file, call.cfg, call.currentVersion, call.newVersion),
            LAMBDA result :
              /\ file' = result.data
              /\ probe' = [applied |-> TRUE, before |-> file, result |-> result])
    /\ pc' = "twice"
    /\ UNCHANGED call

TwiceNext == FirstUpdate \/ SecondUpdate

TwiceSpec == TwiceInit /\ [][TwiceNext]_vars

\* The first call succeeded with a new version that differs from the
\* current one, on a value that was prefix + currentVersion.
FirstUpdateApplied ==
    /\ pc = "twice"
    /\ call.result.err = ""
    /\ call.newVersion # call.currentVersion
    /\ Addressed # 0
    /\ ValueBefore = OldVersionStr

\* C28: after UpdateYAMLFile succeeded for (prefix, currentVersion,
\* newVersion), newVersion differing from currentVersion, on a value that
\* held prefix + currentVersion, a second call with the same arguments
\* returns a version mismatch and leaves the file as the first call wrote
\* it.
C28_NeverAppliedTwice ==
    FirstUpdateApplied =>
        /\ probe.result.err = "version mismatch"
        /\ file = probe.before

----------------------------------------------------------------------------
(* Two successive calls of UpdateYAMLFile on one file for two leaf keys    *)
(* that hold the same value, made in the one order on a copy of the file   *)
(* (call) and in the other order on another copy (probe).                  *)

\* A file with two keys holding the same value, each in its own quoting.
PairFile(key, q, q2, value) ==
    EntryLine(0, key, Chars(" "), q, value, <<>>)
    \o EntryLine(0, Chars("tag"), Chars(" "), q2, value, <<>>)

PairInit ==
    /\ pc = "ready"
    /\ \E key \in {Chars("ptag"), Chars("app")}, q \in Quotes, q2 \in Quotes,
          value \in Values, prefix \in Prefixes,
          currentVersion \in Versions, newVersion \in Versions :
          /\ file = PairFile(key, q, q2, value)
          /\ call = [key |-> key, quotes |-> <<q, q2>>, value |-> value,
                     prefix |-> prefix, currentVersion |-> currentVersion,
                     newVersion |-> newVersion,
                     paths |-> <<key, Chars("tag")>>, data |-> file, errs |-> <<>>]
          /\ probe = [paths |-> <<Chars("tag"), key>>, data |-> file, errs |-> <<>>]

\* The next call of a run: UpdateYAMLFile for the next path of the run on
\* its copy of the file.
NextUpdate(run) ==
    With(UpdateYAMLFile(run.data,
                        [file |-> FileName, path |-> run.paths[Len(run.errs) + 1],
                         prefix |-> call.prefix],
                        call.currentVersion, call.newVersion),
         LAMBDA result :
            [run EXCEPT !.data = result.data, !.errs = Append(@, result.err)])

UpdateInOrder ==
    /\ Len(call.errs) < 2
    /\ call' = NextUpdate(call)
    /\ pc' = "running"
    /\ UNCHANGED <<file, probe>>

UpdateInReverseOrder ==
    /\ Len(probe.errs) < 2
    /\ probe' = NextUpdate(probe)
    /\ pc' = "running"
    /\ UNCHANGED <<file, call>>

PairNext == UpdateInOrder \/ UpdateInReverseOrder

PairSpec == PairInit /\ [][PairNext]_vars

\* Both runs made their two calls, on keys that held prefix +
\* currentVersion, with a new version that differs.
BothOrdersRun ==
    /\ Len(call.errs) = 2
    /\ Len(probe.errs) = 2
    /\ call.value = call.prefix \o call.currentVersion
    /\ call.newVersion # call.currentVersion

\* C29: two successive calls of UpdateYAMLFile on the same file for two
\* different leaf keys holding the same version both succeed, leave both
\* values at the new version in their own quoting, and give the same file
\* whichever call is made first.
C29_BothKeysUpdatedInEitherOrder ==
    BothOrdersRun =>
        /\ call.errs = <<"", "">>
        /\ probe.errs = <<"", "">>
        /\ call.data = PairFile(call.key, call.quotes[1], call.quotes[2],
                                call.prefix \o call.newVersion)
        /\ probe.data = call.data

====
